---------------------------- MODULE Spec2Model ----------------------------
(***************************************************************************)
(* Offline-first task synchronizer: the tasks table, the sync_queue       *)
(* (outbox) table, the TaskService mutations that append outbox entries    *)
(* and SyncService.sync(), which drains the outbox in batches, reconciles  *)
(* the remote's per-item outcomes and applies the bounded retry policy.    *)
(*                                                                         *)
(* sync() is an async function: it is modelled as a process whose          *)
(* position (pc) moves from one await to the next.  The remote is the      *)
(* environment: it fails a batch request or answers with an array of       *)
(* processed items.  The array is read strictly left to right and nowhere  *)
(* else, so each of its elements is drawn when the loop reaches it.        *)
(***************************************************************************)
EXTENDS Integers, Sequences, FiniteSets, TLC

\* ------------------------------------------------------------------ bounds

\* Outbox entries created over a run (one per successful mutation).
MaxEntries == 2
\* Outbox entries created while offline, before the first sync() of a run.
MaxOfflineEntries == 3
\* Tasks created over a run.
MaxTasks == 2
\* sync() invocations that drain a queue built up offline.
MaxOfflineCalls == 1
\* Processed items of one response that match no entry of the batch.
MaxSurplus == 1
\* Storage faults and crashes over a run.
MaxFaults == 1
\* SYNC_RETRY_ATTEMPTS of the runs with storage faults.
FaultMaxRetries == 1
\* sync() invocations in flight at a time in the runs with overlapping ones.
MaxInvocations == 2
\* Outbox entries of the runs with overlapping invocations.
MaxConcurrentEntries == 1
\* sync() invocations of a run with mutations during the cycles.
MaxInterleavedCalls == 2

\* ------------------------------------------------------- program constants

\* SYNC_RETRY_ATTEMPTS default.
DefaultMaxRetries == 3
\* SQL NULL of a DATETIME column; the clock starts above it.
NoTime == 0

\* SYNC_BATCH_SIZE values the service is constructed with.
ConfiguredBatchSizes == {1, 2}

\* Task ids stand for the uuids createTask draws: the k-th task created has id k.
TaskIds == 1 .. MaxTasks
\* A client_id that is the id of no task.
UnknownClient == 0
EntryIds == 1 .. (MaxEntries + MaxOfflineEntries)

\* The processed items the remote answers with for one client_id: their
\* status, server_id ("" is an absent one) and resolved_data (<<>> is an
\* absent one, <<r>> the object r).
Answers ==
  { [status |-> "success", server_id |-> "s1", resolved_data |-> <<>>],
    [status |-> "success", server_id |-> "s1",
     resolved_data |-> << [title |-> "Server Wins"] >>],
    [status |-> "conflict", server_id |-> "",
     resolved_data |->
       << [title |-> "Server Wins", id |-> "s2", updated_at |-> NoTime] >>],
    [status |-> "error", server_id |-> "", resolved_data |-> <<>>] }

VARIABLES
  tasks,      \* tasks table: rows in insertion order, task id = position
  queue,      \* sync_queue table: rows in insertion (rowid) order
  now,        \* the wall clock, as read by new Date()
  nextId,     \* number of outbox entries created so far (fresh-uuid supply)
  budget,     \* environment: mutations it performs over the run
  late,       \* environment: whether it mutates after the first sync()
  overlap,    \* environment: whether it mutates while a sync() is running
  answers,    \* environment: the answers the remote gives (a subset of Answers)
  calls,      \* environment: sync() invocations still to come (-1: unbounded)
  faults,     \* environment: storage faults and crashes so far
  online,     \* whether sync() has been invoked yet
  batchSize,  \* SyncService.batchSize
  maxRetries, \* SyncService.maxRetries
  cyc,        \* sync() invocations: invocation -> local state
  ev,         \* history: what the step just taken did
  dispatched, \* history: entry id -> times it was sent to the remote
  acked,      \* history: entry id -> times the remote acknowledged it
  fails,      \* history: entry id -> times it was handed to the retry policy
  failedFor   \* history: entry id -> failed_items increments made for it

vars == <<tasks, queue, now, nextId, budget, late, overlap, answers, calls, faults, online, batchSize, maxRetries, cyc, ev,
          dispatched, acked, fails, failedFor>>

hist == <<dispatched, acked, fails, failedFor>>
config == <<budget, late, overlap, answers, batchSize, maxRetries>>

\* ------------------------------------------------------------ sequences

\* Mutant: the matched entry is not spliced out.
RemoveAt_Keep(s, k) == s

RemoveAt(s, k) == SubSeq(s, 1, k - 1) \o SubSeq(s, k + 1, Len(s))

RECURSIVE Flatten(_)
Flatten(ss) == IF ss = <<>> THEN <<>> ELSE Head(ss) \o Flatten(Tail(ss))

Ids(s) == [k \in 1 .. Len(s) |-> s[k].id]

Min(x, y) == IF x < y THEN x ELSE y

\* ---------------------------------------------------------- storage layer

\* UPDATE tasks SET sync_status = ? WHERE id IN (...)
updateTaskSyncStatusBatch(tk, taskIds, status) ==
  [t \in DOMAIN tk |->
     IF t \in taskIds THEN [tk[t] EXCEPT !.sync_status = status] ELSE tk[t]]

\* Mutant: rows of equal created_at come out in reverse insertion order.
InsertByCreatedAt_Unstable(sorted, r) ==
  LET k == Cardinality({j \in 1 .. Len(sorted) :
                          sorted[j].created_at < r.created_at})
  IN  SubSeq(sorted, 1, k) \o <<r>> \o SubSeq(sorted, k + 1, Len(sorted))

\* SELECT * FROM sync_queue ORDER BY created_at ASC: a stable insertion sort
\* of the rows in rowid order.
InsertByCreatedAt(sorted, r) ==
  LET k == Cardinality({j \in 1 .. Len(sorted) :
                          sorted[j].created_at <= r.created_at})
  IN  SubSeq(sorted, 1, k) \o <<r>> \o SubSeq(sorted, k + 1, Len(sorted))

RECURSIVE SortFrom(_, _)
SortFrom(sorted, rows) ==
  IF rows = <<>> THEN sorted
  ELSE SortFrom(InsertByCreatedAt(sorted, Head(rows)), Tail(rows))

SelectQueueOrdered(q) == SortFrom(<<>>, q)

\* Mutant: entries of a record that is in-progress are taken for sent.
mapRowToSyncQueueItem_SkipInProgress(rows) ==
  SelectSeq(rows, LAMBDA r : /\ r.data_ok
                             /\ tasks[r.task_id].sync_status # "in-progress")

\* mapRowToSyncQueueItem over the rows, then the filter of the nulls.
mapRowToSyncQueueItem(rows) == SelectSeq(rows, LAMBDA r : r.data_ok)

\* Mutant: the DELETE matches no row.
DeleteQueueRow_NoRow(q, id) == q

\* Mutant: the DELETE removes every entry of the record of the entry.
DeleteQueueRow_WholeRecord(q, id) == SelectSeq(q, LAMBDA r : \A k \in DOMAIN q : q[k].id = id => r.task_id # q[k].task_id)

\* DELETE FROM sync_queue WHERE id = ?
DeleteQueueRow(q, id) == SelectSeq(q, LAMBDA r : r.id # id)

\* ------------------------------------------------------------ SyncService

\* generateChecksum, lines 198-211.  A string is its sequence of UTF-16 code
\* units where charCodeAt reads it.  A 32-bit integer is handled in two
\* 16-bit halves, so that no intermediate value leaves the 32-bit range.

\* The code units of the operation names.
OperationCodes(operation) ==
  CASE operation = "create" -> <<99, 114, 101, 97, 116, 101>>
    [] operation = "update" -> <<117, 112, 100, 97, 116, 101>>
    [] operation = "delete" -> <<100, 101, 108, 101, 116, 101>>

\* The code units of a record id: record n stands for the uuid spelled as
\* the decimal digit n.
TaskIdCodes(taskId) == <<48 + taskId>>

\* The id of an entry as the string the template literal prints.
EntryIdString(id) == ToString(id)

\* JSON.stringify of { op: i.operation, tid: i.task_id }:
\* {"op":"<operation>","tid":"<task id>"}
StringifyItem(item) ==
  <<123, 34, 111, 112, 34, 58, 34>> \o OperationCodes(item.operation)
    \o <<34, 44, 34, 116, 105, 100, 34, 58, 34>> \o TaskIdCodes(item.task_id)
    \o <<34, 125>>

\* JSON.stringify of the mapped array: [ item , item ... ]
RECURSIVE StringifyFrom(_, _)
StringifyFrom(items, k) ==
  IF k > Len(items) THEN <<93>>
  ELSE (IF k = 1 THEN <<>> ELSE <<44>>) \o StringifyItem(items[k])
         \o StringifyFrom(items, k + 1)

dataString(items) == <<91>> \o StringifyFrom(items, 1)

\* The two 16-bit halves of the 32-bit pattern of an integer.
High(h) == (h \div 65536) % 65536

Low(h) == h % 65536

\* The signed 32-bit integer with the given halves (ToInt32).
ToInt32(hi, lo) ==
  IF hi >= 32768 THEN (hi - 65536) * 65536 + lo ELSE hi * 65536 + lo

\* Mutant: the shift is by 4 bits.
ShiftLeft5_By4(h) == ToInt32((High(h) * 16 + (Low(h) * 16) \div 65536) % 65536, (Low(h) * 16) % 65536)

\* hash << 5
ShiftLeft5(h) ==
  ToInt32((High(h) * 32 + (Low(h) * 32) \div 65536) % 65536,
          (Low(h) * 32) % 65536)

\* hash = (hash << 5) - hash + charCode; hash |= 0
HashStep(h, charCode) ==
  LET shifted == ShiftLeft5(h)
      lo      == Low(shifted) - Low(h) + charCode
  IN  ToInt32((High(shifted) - High(h) + lo \div 65536) % 65536, lo % 65536)

\* The loop of lines 206-209 over the positions a .. b in ascending order,
\* hash being h before: the first half of the positions, then the second,
\* which starts from the value v the first half ended with.
RECURSIVE HashFrom(_, _, _, _)
HashFrom(h, codes, a, b) ==
  IF a > b THEN h
  ELSE IF a = b THEN HashStep(h, codes[a])
  ELSE CHOOSE r \in {HashFrom(v, codes, (a + b) \div 2 + 1, b) :
                       v \in {HashFrom(h, codes, a, (a + b) \div 2)}} : TRUE

generateChecksum(items) ==
  IF items = <<>> THEN "empty"
  ELSE LET firstId == IF EntryIdString(items[1].id) = "" THEN "none"
                      ELSE EntryIdString(items[1].id)
           lastId  == IF EntryIdString(items[Len(items)].id) = "" THEN "none"
                      ELSE EntryIdString(items[Len(items)].id)
           hash    == HashFrom(0, dataString(items), 1,
                                   Len(dataString(items)))
       IN  ToString(Len(items)) \o "-" \o firstId \o "-" \o lastId
             \o "-" \o ToString(hash)

\* Mutant: the result starts out as a failure.
NewResult_NotSuccess ==
  [success |-> FALSE, synced_items |-> 0, failed_items |-> 0, errors |-> <<>>]

NewResult == [success |-> TRUE, synced_items |-> 0, failed_items |-> 0,
              errors |-> <<>>]

SyncError(item, kind) ==
  [task_id |-> item.task_id, operation |-> item.operation, error |-> kind]

\* Mutant: the resolved title is not written back.
ResolvedUpdate_KeepTitle(row, clock, serverId, r) ==
  [row EXCEPT !.updated_at = clock,
              !.server_id = IF serverId # "" THEN serverId
                            ELSE IF "id" \in DOMAIN r THEN r.id ELSE @]

\* Mutant: created_at is on the allow-list.
AllowedKeys_WithCreatedAt ==
  {"title", "description", "completed", "is_deleted", "updated_at",
   "server_id", "id", "created_at"}

\* The keys of resolved data that updateSyncStatus copies.
AllowedKeys ==
  {"title", "description", "completed", "is_deleted", "updated_at",
   "server_id", "id"}

\* The UPDATE updateSyncStatus builds from resolved data r: the allowed keys
\* of r are copied, updated_at and server_id are computed, and every copied
\* key but 'id' and the columns that are set already becomes a SET clause.
\* The rows of the model carry neither description nor completed.
ResolvedUpdate(row, clock, serverId, r) ==
  LET has(k) == k \in DOMAIN r
      finalServerId ==
        IF serverId # "" THEN serverId
        ELSE IF has("server_id") /\ r.server_id # "" THEN r.server_id
        ELSE IF has("id") /\ r.id # "" THEN r.id
        ELSE ""
      updatesFromResolved ==
        (AllowedKeys \cap DOMAIN r) \cup {"updated_at"}
          \cup (IF finalServerId # "" THEN {"server_id"} ELSE {})
      setClauses ==
        updatesFromResolved \ {"id", "sync_status", "last_synced_at"}
      value(k) ==
        CASE k = "updated_at" ->
               IF has("updated_at") /\ r.updated_at # NoTime
               THEN r.updated_at ELSE clock
          [] k = "server_id" /\ finalServerId # "" -> finalServerId
          [] OTHER -> r[k]
  IN  [col \in DOMAIN row |->
         IF col \in setClauses THEN value(col) ELSE row[col]]

\* Mutant: the server_id of the processed item is not stored.
updateSyncStatus_NoServerId(st, clock, queueItemId, taskId, status, serverId, resolved) ==
  [st EXCEPT
     !.tasks = [@ EXCEPT ![taskId].sync_status = status,
                         ![taskId].last_synced_at =
                           IF status = "synced" THEN clock ELSE @],
     !.queue = SelectSeq(@, LAMBDA r : r.id # queueItemId)]

\* Mutant: the UPDATE of the task row matches no row.
updateSyncStatus_NoTaskRow(st, clock, queueItemId, taskId, status, serverId, resolved) == [st EXCEPT !.queue = DeleteQueueRow(@, queueItemId)]

\* updateSyncStatus: the UPDATE of the task row, then the DELETE of the
\* queue row.  st is the store [tasks, queue, result].
updateSyncStatus(st, clock, queueItemId, taskId, status, serverId, resolved) ==
  LET row == st.tasks[taskId]
      r1  == [row EXCEPT !.sync_status = status,
                         !.last_synced_at =
                           IF status = "synced" THEN clock ELSE @]
      r2  == IF resolved # <<>> /\ status = "synced"
             THEN ResolvedUpdate(r1, clock, serverId, resolved[1])
             ELSE IF serverId # "" THEN [r1 EXCEPT !.server_id = serverId]
             ELSE r1
  IN  [st EXCEPT
         !.tasks = IF taskId \in DOMAIN st.tasks
                   THEN [st.tasks EXCEPT ![taskId] = r2] ELSE @,
         !.queue = DeleteQueueRow(@, queueItemId)]

\* Mutant: the cap test is >= instead of >.
handleSyncError_CapOffByOne(st, clock, cap, item, errorMessage) ==
  LET newRetryCount == item.retry_count + 1
  IN  IF newRetryCount >= cap
      THEN [st EXCEPT
              !.tasks = [@ EXCEPT ![item.task_id].sync_status = "failed"],
              !.queue = SelectSeq(@, LAMBDA r : r.id # item.id),
              !.result.failed_items = @ + 1,
              !.result.errors = Append(@, SyncError(item, "permanent"))]
      ELSE [st EXCEPT
              !.tasks = [@ EXCEPT ![item.task_id].sync_status =
                                    IF @ = "failed" THEN @ ELSE "error"],
              !.queue = [k \in DOMAIN @ |->
                           IF @[k].id = item.id
                           THEN [@[k] EXCEPT !.retry_count = newRetryCount,
                                             !.error_message = errorMessage]
                           ELSE @[k]],
              !.result.errors = Append(@, SyncError(item, "temp"))]

\* Mutant: an exhausted entry is marked failed but left in the queue.
handleSyncError_KeepEntry(st, clock, cap, item, errorMessage) ==
  LET newRetryCount == item.retry_count + 1
  IN  IF newRetryCount > cap
      THEN [st EXCEPT
              !.tasks = [@ EXCEPT ![item.task_id].sync_status = "failed"],
              !.result.failed_items = @ + 1,
              !.result.errors = Append(@, SyncError(item, "permanent"))]
      ELSE [st EXCEPT
              !.tasks = [@ EXCEPT ![item.task_id].sync_status =
                                    IF @ = "failed" THEN @ ELSE "error"],
              !.queue = [k \in DOMAIN @ |->
                           IF @[k].id = item.id
                           THEN [@[k] EXCEPT !.retry_count = newRetryCount,
                                             !.error_message = errorMessage]
                           ELSE @[k]],
              !.result.errors = Append(@, SyncError(item, "temp"))]

\* Mutant: the retry count is written back unchanged.
handleSyncError_NoIncrement(st, clock, cap, item, errorMessage) ==
  [st EXCEPT
     !.tasks = [@ EXCEPT ![item.task_id].sync_status =
                           IF @ = "failed" THEN @ ELSE "error"],
     !.queue = [k \in DOMAIN @ |->
                  IF @[k].id = item.id
                  THEN [@[k] EXCEPT !.error_message = errorMessage]
                  ELSE @[k]],
     !.result.errors = Append(@, SyncError(item, "temp"))]

\* Mutant: a retried entry is stamped anew and so moves behind the others.
handleSyncError_Requeue(st, clock, cap, item, errorMessage) ==
  [st EXCEPT
     !.tasks = [@ EXCEPT ![item.task_id].sync_status =
                           IF @ = "failed" THEN @ ELSE "error"],
     !.queue = [k \in DOMAIN @ |->
                  IF @[k].id = item.id
                  THEN [@[k] EXCEPT !.retry_count = item.retry_count + 1,
                                    !.error_message = errorMessage,
                                    !.created_at = clock + 1]
                  ELSE @[k]],
     !.result.errors = Append(@, SyncError(item, "temp"))]

\* Mutant: every failure writes retry_count 1, whatever the count before.
handleSyncError_RestartCount(st, clock, cap, item, errorMessage) ==
  [st EXCEPT
     !.tasks = [@ EXCEPT ![item.task_id].sync_status =
                           IF @ = "failed" THEN @ ELSE "error"],
     !.queue = [k \in DOMAIN @ |->
                  IF @[k].id = item.id
                  THEN [@[k] EXCEPT !.retry_count = 1,
                                    !.error_message = errorMessage]
                  ELSE @[k]],
     !.result.errors = Append(@, SyncError(item, "temp"))]

\* handleSyncError: the retry policy for one item of the loaded snapshot.
\* Mutant: the cap test lets one more attempt through.
handleSyncError_OneMore(st, clock, cap, item, errorMessage) == LET newRetryCount == item.retry_count + 1 IN IF newRetryCount > cap + 1 THEN LET s1 == updateSyncStatus(st, clock, item.id, item.task_id, "failed", "", <<>>) IN [s1 EXCEPT !.result.failed_items = @ + 1, !.result.errors = Append(@, SyncError(item, "permanent"))] ELSE LET current == IF item.task_id \in DOMAIN st.tasks THEN st.tasks[item.task_id].sync_status ELSE "undefined" IN [st EXCEPT !.tasks = IF current # "failed" THEN updateTaskSyncStatusBatch(@, {item.task_id}, "error") ELSE @, !.queue = [k \in DOMAIN @ |-> IF @[k].id = item.id THEN [@[k] EXCEPT !.retry_count = newRetryCount, !.error_message = errorMessage] ELSE @[k]], !.result.errors = Append(@, SyncError(item, "temp"))]

handleSyncError(st, clock, cap, item, errorMessage) ==
  LET newRetryCount == item.retry_count + 1
  IN  IF newRetryCount > cap
      THEN LET s1 == updateSyncStatus(st, clock, item.id, item.task_id,
                                      "failed", "", <<>>)
           IN  [s1 EXCEPT
                  !.result.failed_items = @ + 1,
                  !.result.errors = Append(@, SyncError(item, "permanent"))]
      ELSE LET current == IF item.task_id \in DOMAIN st.tasks
                          THEN st.tasks[item.task_id].sync_status
                          ELSE "undefined"
           IN  [st EXCEPT
                  !.tasks = IF current # "failed"
                            THEN updateTaskSyncStatusBatch(@, {item.task_id},
                                                           "error")
                            ELSE @,
                  !.queue = [k \in DOMAIN @ |->
                               IF @[k].id = item.id
                               THEN [@[k] EXCEPT
                                       !.retry_count = newRetryCount,
                                       !.error_message = errorMessage]
                               ELSE @[k]],
                  !.result.errors = Append(@, SyncError(item, "temp"))]

\* Mutant: the last entry of the record is matched, not the first.
findIndex_Last(localBatch, clientId) ==
  LET hits == {k \in 1 .. Len(localBatch) : localBatch[k].task_id = clientId}
  IN  IF hits = {} THEN 0 ELSE CHOOSE k \in hits : \A j \in hits : k >= j

\* Mutant: an item that matches no entry is taken for the first one.
findIndex_FirstOnMiss(localBatch, clientId) ==
  LET hits == {k \in 1 .. Len(localBatch) : localBatch[k].task_id = clientId}
  IN  IF hits = {} THEN (IF localBatch = <<>> THEN 0 ELSE 1)
      ELSE CHOOSE k \in hits : \A j \in hits : k <= j

\* localBatch.findIndex(item => item.task_id === processed.client_id);
\* 0 stands for -1.
findIndex(localBatch, clientId) ==
  LET hits == {k \in 1 .. Len(localBatch) : localBatch[k].task_id = clientId}
  IN  IF hits = {} THEN 0 ELSE CHOOSE k \in hits : \A j \in hits : k <= j

\* Mutant: an item of status error marks every record in-progress as error.
ProcessItem_ErrorMarksAll(st, clock, cap, item, processed) ==
  IF processed.status \in {"success", "conflict"}
  THEN [updateSyncStatus(st, clock, item.id, item.task_id, "synced",
                         processed.server_id, processed.resolved_data)
          EXCEPT !.result.synced_items = @ + 1,
                 !.result.errors =
                   IF processed.status = "conflict"
                   THEN Append(@, SyncError(item, "conflict")) ELSE @]
  ELSE [handleSyncError(st, clock, cap, item, "Unknown server error")
          EXCEPT !.tasks = [t \in DOMAIN @ |->
                              IF @[t].sync_status = "in-progress"
                              THEN [@[t] EXCEPT !.sync_status = "error"]
                              ELSE @[t]]]

\* Mutant: a conflict keeps the local version, its resolved data are dropped.
ProcessItem_ConflictKeepsLocal(st, clock, cap, item, processed) ==
  IF processed.status = "success"
  THEN [updateSyncStatus(st, clock, item.id, item.task_id, "synced",
                         processed.server_id, processed.resolved_data)
          EXCEPT !.result.synced_items = @ + 1]
  ELSE [updateSyncStatus(st, clock, item.id, item.task_id, "synced",
                         processed.server_id, <<>>)
          EXCEPT !.result.synced_items = @ + 1,
                 !.result.errors = Append(@, SyncError(item, "conflict"))]

\* The body of the loop over response.processed_items for one processed item.
\* Mutant: a resolved conflict is reported but not counted as synced.
ProcessItem_ConflictUncounted(st, clock, cap, item, processed) == IF processed.status = "conflict" THEN [updateSyncStatus(st, clock, item.id, item.task_id, "synced", processed.server_id, processed.resolved_data) EXCEPT !.result.errors = Append(@, SyncError(item, "conflict"))] ELSE IF processed.status = "success" THEN [updateSyncStatus(st, clock, item.id, item.task_id, "synced", processed.server_id, processed.resolved_data) EXCEPT !.result.synced_items = @ + 1] ELSE handleSyncError(st, clock, cap, item, "Unknown server error")

ProcessItem(st, clock, cap, item, processed) ==
  IF processed.status = "success"
  THEN [updateSyncStatus(st, clock, item.id, item.task_id, "synced",
                         processed.server_id, processed.resolved_data)
          EXCEPT !.result.synced_items = @ + 1]
  ELSE IF processed.status = "conflict"
  THEN [updateSyncStatus(st, clock, item.id, item.task_id, "synced",
                         processed.server_id, processed.resolved_data)
          EXCEPT !.result.synced_items = @ + 1,
                 !.result.errors = Append(@, SyncError(item, "conflict"))]
  ELSE handleSyncError(st, clock, cap, item, "Unknown server error")

\* Mutant: the catch loop only resets the status and skips the retry policy.
CatchItem_StatusOnly(st, clock, cap, item) ==
  [st EXCEPT !.tasks = [@ EXCEPT ![item.task_id].sync_status =
                                   IF @ = "in-progress" THEN "error" ELSE @]]

\* The body of the catch (batchError) loop for one item of the batch.
CatchItem(st, clock, cap, item) ==
  LET cur == IF item.task_id \in DOMAIN st.tasks
             THEN st.tasks[item.task_id].sync_status ELSE "undefined"
      s1  == IF cur = "in-progress"
             THEN [st EXCEPT !.tasks = updateTaskSyncStatusBatch(
                                         @, {item.task_id}, "error")]
             ELSE st
  IN  handleSyncError(s1, clock, cap, item, "Batch processing failed")

\* ------------------------------------------------------------------- state

IdleCycle ==
  [pc |-> "idle", queueItems |-> <<>>, i |-> 0, batch |-> <<>>,
   localBatch |-> <<>>, rest |-> <<>>, result |-> NewResult,
   \* processed items of the current response that matched no entry
   ignored |-> 0,
   \* history of the cycle
   rows |-> <<>>, sent |-> <<>>, outcome |-> <<>>, batchFailed |-> FALSE,
   missing |-> FALSE]

NoEvent == [kind |-> "none", id |-> 0, task |-> 0, rc |-> 0,
            client |-> UnknownClient, server_id |-> "", resolved |-> <<>>,
            health |-> "none", returned |-> "nothing"]

Event(kind, item) ==
  [kind |-> kind, id |-> item.id, task |-> item.task_id,
   rc |-> item.retry_count, client |-> item.task_id, server_id |-> "",
   resolved |-> <<>>, health |-> "none", returned |-> "nothing"]

InitWith(b, r, l, a, n) ==
  /\ tasks = <<>>
  /\ queue = <<>>
  /\ now = 1
  /\ nextId = 0
  /\ budget = b
  /\ late = l
  /\ overlap = FALSE
  /\ answers = a
  /\ calls = n
  /\ faults = 0
  /\ online = FALSE
  /\ batchSize \in ConfiguredBatchSizes
  /\ maxRetries = r
  /\ cyc = [p \in {1} |-> IdleCycle]
  /\ ev = NoEvent
  /\ dispatched = [e \in EntryIds |-> 0]
  /\ acked = [e \in EntryIds |-> 0]
  /\ fails = [e \in EntryIds |-> 0]
  /\ failedFor = [e \in EntryIds |-> 0]

\* Mutations and sync() cycles alternate freely, default retry cap.
Init == InitWith(MaxEntries, DefaultMaxRetries, TRUE, Answers, -1)

\* A longer queue is built up offline and then drained.
OfflineInit ==
  InitWith(MaxOfflineEntries, DefaultMaxRetries, FALSE, Answers,
           MaxOfflineCalls)

\* The queue is built up and then no new mutation arrives.
DrainInit == InitWith(MaxEntries, DefaultMaxRetries, FALSE, Answers, -1)

Store(p) == [tasks |-> tasks, queue |-> queue, result |-> cyc[p].result]

\* ------------------------------------------------------------ TaskService

\* Mutant: the new entry replaces the outstanding entries of its record.
addToSyncQueue_Compact(q, id, taskId, operation, clock) ==
  Append(SelectSeq(q, LAMBDA r : r.task_id # taskId),
         [id |-> id, task_id |-> taskId, operation |-> operation,
          created_at |-> clock, retry_count |-> 0, error_message |-> "",
          data_ok |-> TRUE])

\* Mutant: the INSERT is an upsert that resets the retry accounting of the
\* outstanding entries of the record.
addToSyncQueue_ResetRetries(q, id, taskId, operation, clock) ==
  Append([k \in DOMAIN q |->
            IF q[k].task_id = taskId
            THEN [q[k] EXCEPT !.retry_count = 0, !.error_message = ""]
            ELSE q[k]],
         [id |-> id, task_id |-> taskId, operation |-> operation,
          created_at |-> clock, retry_count |-> 0, error_message |-> "",
          data_ok |-> TRUE])

\* addToSyncQueue: INSERT INTO sync_queue with a fresh id and retry_count 0.
addToSyncQueue(q, id, taskId, operation, clock) ==
  Append(q, [id |-> id, task_id |-> taskId, operation |-> operation,
             created_at |-> clock, retry_count |-> 0, error_message |-> "",
             data_ok |-> TRUE])

\* SELECT * FROM tasks WHERE id = ? AND is_deleted = 0
getTask(tk, id) == id \in DOMAIN tk /\ ~tk[id].is_deleted

Mutation(clock) ==
  /\ nextId < budget
  /\ late \/ ~online
  /\ overlap \/ \A p \in DOMAIN cyc : cyc[p].pc = "idle"
  /\ clock \in {now, now + 1}
  /\ now' = clock
  /\ nextId' = nextId + 1
  /\ UNCHANGED <<calls, online, config, faults, cyc, hist>>

createTask ==
  \E clock \in {now, now + 1} :
    LET id == Len(tasks) + 1
    IN  /\ id \in TaskIds
        /\ Mutation(clock)
        /\ tasks' = Append(tasks,
                      [id |-> id, title |-> "Task", is_deleted |-> FALSE,
                       created_at |-> clock, updated_at |-> clock,
                       sync_status |-> "pending", server_id |-> "",
                       last_synced_at |-> NoTime])
        /\ queue' = addToSyncQueue(queue, nextId + 1, id, "create", clock)
        /\ ev' = [NoEvent EXCEPT !.kind = "createTask", !.id = nextId + 1,
                                 !.task = id]

\* The early return of updateTask and deleteTask: getTask found no row, the
\* call returns null or false before it reads the clock or writes anything.
NotFound(kind, id) ==
  /\ late \/ ~online
  /\ overlap \/ \A p \in DOMAIN cyc : cyc[p].pc = "idle"
  /\ ev' = [NoEvent EXCEPT !.kind = kind, !.task = id]
  /\ UNCHANGED <<tasks, queue, now, nextId, calls, online, config, faults,
                 cyc, hist>>

updateTask ==
  \E id \in TaskIds, clock \in {now, now + 1} :
    IF getTask(tasks, id)
    THEN /\ Mutation(clock)
         /\ tasks' = [tasks EXCEPT ![id].title = "Local Update",
                                   ![id].updated_at = clock,
                                   ![id].sync_status = "pending"]
         /\ queue' = addToSyncQueue(queue, nextId + 1, id, "update", clock)
         /\ ev' = [NoEvent EXCEPT !.kind = "updateTask", !.id = nextId + 1,
                                  !.task = id]
    ELSE NotFound("updateNotFound", id)

deleteTask ==
  \E id \in TaskIds, clock \in {now, now + 1} :
    IF getTask(tasks, id)
    THEN /\ Mutation(clock)
         /\ tasks' = [tasks EXCEPT ![id].is_deleted = TRUE,
                                   ![id].updated_at = clock,
                                   ![id].sync_status = "pending"]
         /\ queue' = addToSyncQueue(queue, nextId + 1, id, "delete", clock)
         /\ ev' = [NoEvent EXCEPT !.kind = "deleteTask", !.id = nextId + 1,
                                  !.task = id]
    ELSE NotFound("deleteNotFound", id)

\* ----------------------------------------------------------------- sync()

Commit(p, st, c) ==
  /\ tasks' = st.tasks
  /\ queue' = st.queue
  /\ cyc' = [cyc EXCEPT ![p] = [c EXCEPT !.result = st.result]]

\* Mutant: a failed batch ends the loop.
NextBatch_BreakOnFailure(c) ==
  [c EXCEPT !.pc = "loop",
            !.i = IF c.batchFailed THEN Len(c.queueItems) ELSE @ + batchSize,
            !.batch = <<>>, !.localBatch = <<>>, !.rest = <<>>,
            !.ignored = 0]

\* The for loop's i += batchSize, back at the loop test.
NextBatch(c) ==
  [c EXCEPT !.pc = "loop", !.i = @ + batchSize, !.batch = <<>>,
            !.localBatch = <<>>, !.rest = <<>>, !.ignored = 0]

\* History: how the entry `item` of the current batch was handled.
Outcome(c, item, kind, serverId) ==
  [id |-> item.id, task |-> item.task_id, kind |-> kind,
   server_id |-> serverId, batch |-> Len(c.sent)]

\* The history of one step that handled `item` and took the store from
\* Store(p) to st: what the retry policy and the counters did for it.
Account(p, st, item) ==
  LET dFailed == st.result.failed_items - cyc[p].result.failed_items
  IN  /\ failedFor' = [failedFor EXCEPT ![item.id] = @ + dFailed]
      /\ UNCHANGED dispatched

\* Mutant: sync() takes a lock: it starts only when no other invocation is
\* under way.
SyncStart_Locked(p) ==
  /\ \A q \in DOMAIN cyc : cyc[q].pc = "idle"
  /\ LET queueRows  == SelectQueueOrdered(queue)
         queueItems == mapRowToSyncQueueItem(queueRows)
     IN  cyc' = [cyc EXCEPT ![p] =
                   [IdleCycle EXCEPT
                      !.pc = IF queueRows = <<>> \/ queueItems = <<>>
                             THEN "done" ELSE "loop",
                      !.queueItems = queueItems,
                      !.rows = queue]]
  /\ calls # 0
  /\ calls' = IF calls > 0 THEN calls - 1 ELSE calls
  /\ online' = TRUE
  /\ ev' = [NoEvent EXCEPT !.kind = "start"]
  /\ UNCHANGED <<tasks, queue, now, nextId, config, faults, hist>>

\* Lines 75-91: the result, the SELECT, the parse and the two early returns.
SyncStart(p) ==
  /\ cyc[p].pc = "idle"
  /\ LET queueRows  == SelectQueueOrdered(queue)
         queueItems == mapRowToSyncQueueItem(queueRows)
     IN  cyc' = [cyc EXCEPT ![p] =
                   [IdleCycle EXCEPT
                      !.pc = IF queueRows = <<>> \/ queueItems = <<>>
                             THEN "done" ELSE "loop",
                      !.queueItems = queueItems,
                      !.rows = queue]]
  /\ calls # 0
  /\ calls' = IF calls > 0 THEN calls - 1 ELSE calls
  /\ online' = TRUE
  /\ ev' = [NoEvent EXCEPT !.kind = "start"]
  /\ UNCHANGED <<tasks, queue, now, nextId, config, faults, hist>>

\* Mutant: the records of every loaded entry are marked, not those of the
\* batch.
MarkBatch_WholeQueue(p) ==
  LET c     == cyc[p]
      batch == SubSeq(c.queueItems, c.i + 1,
                      Min(c.i + batchSize, Len(c.queueItems)))
  IN  /\ c.pc = "loop"
      /\ c.i < Len(c.queueItems)
      /\ tasks' = updateTaskSyncStatusBatch(
                    tasks, {c.queueItems[k].task_id : k \in DOMAIN c.queueItems},
                    "in-progress")
      /\ cyc' = [cyc EXCEPT ![p] = [c EXCEPT !.pc = "marked",
                                             !.batch = batch]]
      /\ ev' = [NoEvent EXCEPT !.kind = "mark"]
      /\ UNCHANGED <<queue, now, nextId, calls, online, config, faults, hist>>

\* Lines 92-97: the loop test, the slice and the in-progress marking.
MarkBatch(p) ==
  LET c     == cyc[p]
      batch == SubSeq(c.queueItems, c.i + 1,
                      Min(c.i + batchSize, Len(c.queueItems)))
  IN  /\ c.pc = "loop"
      /\ c.i < Len(c.queueItems)
      /\ tasks' = updateTaskSyncStatusBatch(
                    tasks, {batch[k].task_id : k \in DOMAIN batch},
                    "in-progress")
      /\ cyc' = [cyc EXCEPT ![p] = [c EXCEPT !.pc = "marked",
                                             !.batch = batch]]
      /\ ev' = [NoEvent EXCEPT !.kind = "mark"]
      /\ UNCHANGED <<queue, now, nextId, calls, online, config, faults, hist>>

\* processBatch, lines 217-228: the POST of the batch is issued.
PostBatch(p) ==
  LET c == cyc[p]
  IN  /\ c.pc = "marked"
      \* the model follows a cycle up to one request more than it has entries
      /\ Len(c.sent) <= Len(c.queueItems)
      /\ cyc' = [cyc EXCEPT ![p] = [c EXCEPT !.pc = "sent",
                                             !.sent = Append(@, Ids(c.batch))]]
      /\ dispatched' = [e \in EntryIds |->
                          dispatched[e] +
                          Cardinality({k \in DOMAIN c.batch :
                                         c.batch[k].id = e})]
      /\ ev' = [NoEvent EXCEPT !.kind = "post"]
      /\ UNCHANGED <<tasks, queue, now, nextId, calls, online, config, faults, acked, fails,
                     failedFor>>

\* processBatch, lines 218-222: the payload of the request of invocation p
\* that is in flight while it waits for the answer to its batch.
requestPayload(p) ==
  [items |-> cyc[p].batch, checksum |-> generateChecksum(cyc[p].batch)]

\* processBatch throws (network error, timeout, non-2xx, or a body without a
\* processed_items array): sync's catch (batchError), lines 166-168.
BatchFail(p) ==
  LET c == cyc[p]
      c1 == [c EXCEPT !.pc = "catch", !.result.success = FALSE,
                      !.rest = c.batch, !.batchFailed = TRUE]
  IN  /\ c.pc = "sent"
      \* the for loop of line 169 has no iteration for an empty batch
      /\ cyc' = [cyc EXCEPT ![p] =
                   IF c.batch = <<>> THEN NextBatch(c1) ELSE c1]
      /\ ev' = [NoEvent EXCEPT !.kind = "batchError"]
      /\ UNCHANGED <<tasks, queue, now, nextId, calls, online, config, faults, hist>>

\* Lines 169-177: one item of the failed batch.
CatchStep(p) ==
  LET c    == cyc[p]
      item == Head(c.rest)
      st   == CatchItem(Store(p), now, maxRetries, item)
      c1   == [c EXCEPT !.rest = Tail(@),
                        !.outcome = Append(@, Outcome(c, item, "transport", ""))]
  IN  /\ c.pc = "catch"
      /\ c.rest # <<>>
      /\ Commit(p, st, IF Tail(c.rest) = <<>> THEN NextBatch(c1) ELSE c1)
      /\ Account(p, st, item)
      /\ fails' = [fails EXCEPT ![item.id] = @ + 1]
      /\ ev' = Event("transport", item)
      /\ UNCHANGED <<now, nextId, calls, online, config, faults, acked>>

\* processBatch returns a body with a processed_items array, lines 102-104.
BatchResponse(p) ==
  LET c == cyc[p]
  IN  /\ c.pc = "sent"
      /\ cyc' = [cyc EXCEPT ![p] = [c EXCEPT !.pc = "items",
                                             !.localBatch = c.batch]]
      /\ ev' = [NoEvent EXCEPT !.kind = "response"]
      /\ UNCHANGED <<tasks, queue, now, nextId, calls, online, config, faults, hist>>

\* The processed items a response to `batch` may carry.
ProcessedItems(batch) ==
  { [client_id |-> c, status |-> a.status, server_id |-> a.server_id,
     resolved_data |-> a.resolved_data] :
      c \in {batch[k].task_id : k \in DOMAIN batch}, a \in answers }
  \cup { [client_id |-> UnknownClient, status |-> "success",
          server_id |-> "s1", resolved_data |-> <<>>] }

\* Lines 105-147: the next processed item of the response.
ItemStep(p) ==
  \E processed \in ProcessedItems(cyc[p].batch) :
    LET c    == cyc[p]
        k    == findIndex(c.localBatch, processed.client_id)
        item == c.localBatch[k]
        st   == ProcessItem(Store(p), now, maxRetries, item, processed)
        kind == IF processed.status \in {"success", "conflict"}
                THEN processed.status ELSE "error"
    IN  /\ c.pc = "items"
        /\ IF k = 0
           THEN /\ c.ignored < MaxSurplus
                /\ cyc' = [cyc EXCEPT ![p].ignored = @ + 1]
                /\ ev' = [NoEvent EXCEPT !.kind = "ignored",
                                         !.client = processed.client_id]
                /\ UNCHANGED <<tasks, queue, hist>>
           ELSE /\ Commit(p, st,
                          [c EXCEPT !.localBatch = RemoveAt(@, k),
                                    !.outcome = Append(@, Outcome(c, item, kind,
                                              processed.server_id))])
                /\ Account(p, st, item)
                /\ acked' = [acked EXCEPT ![item.id] =
                                IF kind = "error" THEN @ ELSE @ + 1]
                /\ fails' = [fails EXCEPT ![item.id] =
                                IF kind = "error" THEN @ + 1 ELSE @]
                /\ ev' = [Event(kind, item) EXCEPT
                            !.client = processed.client_id,
                            !.server_id = processed.server_id,
                            !.resolved = processed.resolved_data]
        /\ UNCHANGED <<now, nextId, calls, online, config, faults>>

\* Mutant: entries the response had no item for are left as they are.
ResponseEnd_DropLeftover(p) ==
  /\ cyc[p].pc = "items"
  /\ cyc' = [cyc EXCEPT ![p] = NextBatch(cyc[p])]
  /\ ev' = [NoEvent EXCEPT !.kind = "responseEnd"]
  /\ UNCHANGED <<tasks, queue, now, nextId, calls, online, config, faults, hist>>

\* The response array is exhausted, lines 148-149.
ResponseEnd(p) ==
  LET c == cyc[p]
  IN  /\ c.pc = "items"
      /\ cyc' = [cyc EXCEPT ![p] =
                   IF c.localBatch # <<>>
                   THEN [c EXCEPT !.pc = "leftover",
                                  !.result.success = FALSE,
                                  !.rest = c.localBatch,
                                  !.missing = TRUE]
                   ELSE NextBatch(c)]
      /\ ev' = [NoEvent EXCEPT !.kind = "responseEnd"]
      /\ UNCHANGED <<tasks, queue, now, nextId, calls, online, config, faults, hist>>

\* Lines 150-155: one item of the batch the response had no item for.
LeftoverStep(p) ==
  LET c    == cyc[p]
      item == Head(c.rest)
      st   == handleSyncError(Store(p), now, maxRetries, item,
                              "No response item received")
      c1   == [c EXCEPT !.rest = Tail(@),
                        !.outcome = Append(@, Outcome(c, item, "missing", ""))]
  IN  /\ c.pc = "leftover"
      /\ c.rest # <<>>
      /\ Commit(p, st, IF Tail(c.rest) = <<>> THEN NextBatch(c1) ELSE c1)
      /\ Account(p, st, item)
      /\ fails' = [fails EXCEPT ![item.id] = @ + 1]
      /\ ev' = Event("missing", item)
      /\ UNCHANGED <<now, nextId, calls, online, config, faults, acked>>

\* Mutant: the failed_items test before the return is missing.
SyncFinish_NoFailedTest(p) ==
  /\ cyc[p].pc = "loop"
  /\ cyc[p].i >= Len(cyc[p].queueItems)
  /\ cyc' = [cyc EXCEPT ![p].pc = "done"]
  /\ ev' = [NoEvent EXCEPT !.kind = "finish"]
  /\ UNCHANGED <<tasks, queue, now, nextId, calls, online, config, faults, hist>>

\* The loop test fails; lines 190-194: the failed_items test and the return.
SyncFinish(p) ==
  LET c == cyc[p]
  IN  /\ c.pc = "loop"
      /\ c.i >= Len(c.queueItems)
      /\ cyc' = [cyc EXCEPT ![p] =
                   [c EXCEPT !.pc = "done",
                             !.result.success =
                               IF c.result.failed_items > 0 THEN FALSE ELSE @]]
      /\ ev' = [NoEvent EXCEPT !.kind = "finish"]
      /\ UNCHANGED <<tasks, queue, now, nextId, calls, online, config, faults, hist>>

\* The caller (POST /sync) takes the SyncResult; the invocation is over.
SyncReturn(p) ==
  /\ cyc[p].pc = "done"
  /\ cyc' = [cyc EXCEPT ![p] = IdleCycle]
  /\ ev' = [NoEvent EXCEPT !.kind = "return"]
  /\ UNCHANGED <<tasks, queue, now, nextId, calls, online, config, faults, hist>>

SyncNext ==
  \E p \in DOMAIN cyc :
    \/ SyncStart(p)
    \/ MarkBatch(p)
    \/ PostBatch(p)
    \/ BatchFail(p)
    \/ CatchStep(p)
    \/ BatchResponse(p)
    \/ ItemStep(p)
    \/ ResponseEnd(p)
    \/ LeftoverStep(p)
    \/ SyncFinish(p)
    \/ SyncReturn(p)

Mutate == createTask \/ updateTask \/ deleteTask

Next == Mutate \/ SyncNext

Spec == Init /\ [][Next]_vars

OfflineSpec == OfflineInit /\ [][Next]_vars

\* sync() is invoked again and again and every invocation runs on.
DrainSpec == DrainInit /\ [][Next]_vars /\ WF_vars(SyncNext)

\* ------------------------------------------- storage faults and crashes

\* Mutant: nothing encloses the body of the catch (batchError) block.
Handler_CatchBlockEscapes(pc) ==
  CASE pc = "idle" -> "outer"
    [] pc \in {"items", "leftover"} -> "inner"
    [] OTHER -> "none"

\* The try statement that catches an exception thrown at a position of
\* sync(): the SELECT of line 82 is inside the outer try (81-189); the
\* reconciliation of lines 102-165 is inside the inner try (98-166); the body
\* of catch (batchError), lines 167-177, is inside the outer try only.
Handler(pc) ==
  CASE pc = "idle" -> "outer"
    [] pc \in {"items", "leftover"} -> "inner"
    [] pc = "catch" -> "outer"
    [] OTHER -> "none"

\* The cycle after an exception thrown at position c.pc.
Thrown(c) ==
  CASE Handler(c.pc) = "inner" ->
         [c EXCEPT !.pc = "catch", !.result.success = FALSE,
                   !.rest = c.batch, !.batchFailed = TRUE]
    [] Handler(c.pc) = "outer" -> [c EXCEPT !.pc = "outerCatch"]
    [] OTHER -> [c EXCEPT !.pc = "rejected"]

\* db.all of line 82 rejects.
SelectFails(p) ==
  /\ cyc[p].pc = "idle"
  /\ calls # 0
  /\ faults < MaxFaults
  /\ faults' = faults + 1
  /\ cyc' = [cyc EXCEPT ![p] = Thrown(IdleCycle)]
  /\ calls' = IF calls > 0 THEN calls - 1 ELSE calls
  /\ online' = TRUE
  /\ ev' = [NoEvent EXCEPT !.kind = "storageError"]
  /\ UNCHANGED <<tasks, queue, now, nextId, config, hist>>

\* db.get of handleSyncError (line 364) rejects while a processed item with
\* status error, or an entry the response had no item for, is handled: the
\* entry is below the cap, nothing was written yet.
GetFailsInTry(p) ==
  \E processed \in ProcessedItems(cyc[p].batch) :
    LET c    == cyc[p]
        k    == findIndex(c.localBatch, processed.client_id)
        item == IF c.pc = "items" THEN c.localBatch[k] ELSE Head(c.rest)
    IN  /\ \/ c.pc = "items" /\ k # 0 /\ processed.status = "error"
           \/ c.pc = "leftover" /\ c.rest # <<>>
        /\ item.retry_count + 1 <= maxRetries
        /\ faults < MaxFaults
        /\ faults' = faults + 1
        /\ cyc' = [cyc EXCEPT ![p] = Thrown(c)]
        /\ ev' = [Event("storageError", item) EXCEPT !.server_id = "364"]
        /\ UNCHANGED <<tasks, queue, now, nextId, calls, online, config, hist>>

\* A db.get rejects inside the catch (batchError) loop: the one of line 170,
\* or the one of handleSyncError (line 364) after the write of line 175.
GetFailsInCatch(p) ==
  \E line \in {"170", "364"} :
    LET c    == cyc[p]
        item == Head(c.rest)
    IN  /\ c.pc = "catch"
        /\ c.rest # <<>>
        /\ line = "364" => item.retry_count + 1 <= maxRetries
        /\ faults < MaxFaults
        /\ faults' = faults + 1
        /\ tasks' = IF line = "364" /\ item.task_id \in DOMAIN tasks
                       /\ tasks[item.task_id].sync_status = "in-progress"
                    THEN updateTaskSyncStatusBatch(tasks, {item.task_id},
                                                   "error")
                    ELSE tasks
        /\ cyc' = [cyc EXCEPT ![p] = Thrown(c)]
        /\ ev' = [Event("storageError", item) EXCEPT !.server_id = line]
        /\ UNCHANGED <<queue, now, nextId, calls, online, config, hist>>

\* Lines 180-194: the outer catch, the failed_items test and the return.
OuterCatch(p) ==
  LET c == cyc[p]
  IN  /\ c.pc = "outerCatch"
      /\ cyc' = [cyc EXCEPT ![p] =
                   [c EXCEPT !.pc = "done",
                             !.result.success = FALSE,
                             !.result.errors =
                               Append(@, [task_id |-> "general",
                                          operation |-> "sync",
                                          error |-> "general"])]]
      /\ ev' = [NoEvent EXCEPT !.kind = "outerCatch"]
      /\ UNCHANGED <<tasks, queue, now, nextId, calls, online, config, faults,
                     hist>>

\* The db.run of updateTaskSyncStatusBatch rejects at the marking of a batch
\* and is swallowed (lines 333-337).
MarkBatchFails(p) ==
  LET c     == cyc[p]
      batch == SubSeq(c.queueItems, c.i + 1,
                      Min(c.i + batchSize, Len(c.queueItems)))
  IN  /\ c.pc = "loop"
      /\ c.i < Len(c.queueItems)
      /\ faults < MaxFaults
      /\ faults' = faults + 1
      /\ cyc' = [cyc EXCEPT ![p] = [c EXCEPT !.pc = "marked",
                                             !.batch = batch]]
      /\ ev' = [NoEvent EXCEPT !.kind = "markLost"]
      /\ UNCHANGED <<tasks, queue, now, nextId, calls, online, config, hist>>

\* One entry is handled while the writes to one table reject and are
\* swallowed: the UPDATE tasks of lines 311 and 334, or the DELETE of line
\* 318 and the UPDATE sync_queue of line 372.
LossyStep(p) ==
  \E lost \in {"tasks", "queue"}, processed \in ProcessedItems(cyc[p].batch) :
    LET c    == cyc[p]
        k    == findIndex(c.localBatch, processed.client_id)
        item == IF c.pc = "items" THEN c.localBatch[k] ELSE Head(c.rest)
        st   == CASE c.pc = "items" ->
                       ProcessItem(Store(p), now, maxRetries, item, processed)
                  [] c.pc = "catch" ->
                       CatchItem(Store(p), now, maxRetries, item)
                  [] OTHER ->
                       handleSyncError(Store(p), now, maxRetries, item,
                                       "No response item received")
        st1  == IF lost = "tasks" THEN [st EXCEPT !.tasks = tasks]
                ELSE [st EXCEPT !.queue = queue]
        kind == CASE c.pc = "catch" -> "transport"
                  [] c.pc = "leftover" -> "missing"
                  [] processed.status \in {"success", "conflict"} ->
                       processed.status
                  [] OTHER -> "error"
        c1   == IF c.pc = "items"
                THEN [c EXCEPT !.localBatch = RemoveAt(@, k),
                               !.outcome = Append(@, Outcome(c, item, kind,
                                                    processed.server_id))]
                ELSE [c EXCEPT !.rest = Tail(@),
                               !.outcome = Append(@, Outcome(c, item, kind,
                                                             ""))]
    IN  /\ \/ c.pc = "items" /\ k # 0
           \/ c.pc \in {"catch", "leftover"} /\ c.rest # <<>>
        /\ st1 # st
        /\ faults < MaxFaults
        /\ faults' = faults + 1
        /\ Commit(p, st1,
                  IF c.pc # "items" /\ Tail(c.rest) = <<>>
                  THEN NextBatch(c1) ELSE c1)
        /\ Account(p, st1, item)
        /\ acked' = [acked EXCEPT ![item.id] =
                        IF kind \in {"success", "conflict"} THEN @ + 1 ELSE @]
        /\ fails' = [fails EXCEPT ![item.id] =
                        IF kind \in {"success", "conflict"} THEN @ ELSE @ + 1]
        /\ ev' = [Event("writeLost", item) EXCEPT !.server_id = lost]
        /\ UNCHANGED <<now, nextId, calls, online, config>>

\* The process dies in the middle of a cycle and is started again: the
\* locals of sync() are gone, the tables are as they were.
Crash(p) ==
  /\ cyc[p].pc # "idle"
  /\ faults < MaxFaults
  /\ faults' = faults + 1
  /\ cyc' = [cyc EXCEPT ![p] = IdleCycle]
  /\ ev' = [NoEvent EXCEPT !.kind = "crash"]
  /\ UNCHANGED <<tasks, queue, now, nextId, calls, online, config, hist>>

\* The payload of some rows of sync_queue is damaged on disk: JSON.parse of
\* their data throws, or an essential column is empty.
Corrupt ==
  \E bad \in (SUBSET {queue[k].id : k \in DOMAIN queue}) \ {{}} :
    /\ \A p \in DOMAIN cyc : cyc[p].pc = "idle"
    /\ faults < MaxFaults
    /\ faults' = faults + 1
    /\ queue' = [k \in DOMAIN queue |->
                   IF queue[k].id \in bad
                   THEN [queue[k] EXCEPT !.data_ok = FALSE] ELSE queue[k]]
    /\ ev' = [NoEvent EXCEPT !.kind = "corrupt"]
    /\ UNCHANGED <<tasks, now, nextId, calls, online, config, cyc, hist>>

FaultStep ==
  \/ Corrupt
  \/ \E p \in DOMAIN cyc :
       \/ SelectFails(p)
       \/ GetFailsInTry(p)
       \/ GetFailsInCatch(p)
       \/ OuterCatch(p)
       \/ MarkBatchFails(p)
       \/ LossyStep(p)
       \/ Crash(p)

FaultNext == Next \/ FaultStep

\* The queue is built up and then drained while storage faults, damaged
\* rows and crashes occur.
FaultInit ==
  InitWith(MaxEntries, FaultMaxRetries, FALSE,
           {a \in Answers : a.resolved_data = <<>>}, -1)

FaultSpec == FaultInit /\ [][FaultNext]_vars

\* The answers of the remote without resolved data.
PlainAnswers == {a \in Answers : a.resolved_data = <<>>}

\* ------------------------------------------- overlapping invocations

\* POST /sync calls sync() on the one SyncService of the server; a request
\* that arrives while another one is awaited starts a second invocation.
Invocations == 1 .. MaxInvocations

\* The queue is built up, then the invocations run, each at its own pace.
ConcurrentInit ==
  /\ tasks = <<>>
  /\ queue = <<>>
  /\ now = 1
  /\ nextId = 0
  /\ budget = MaxConcurrentEntries
  /\ late = FALSE
  /\ overlap = FALSE
  /\ answers = PlainAnswers
  /\ calls = MaxInvocations
  /\ faults = 0
  /\ online = FALSE
  /\ batchSize \in ConfiguredBatchSizes
  /\ maxRetries = DefaultMaxRetries
  /\ cyc = [p \in Invocations |-> IdleCycle]
  /\ ev = NoEvent
  /\ dispatched = [e \in EntryIds |-> 0]
  /\ acked = [e \in EntryIds |-> 0]
  /\ fails = [e \in EntryIds |-> 0]
  /\ failedFor = [e \in EntryIds |-> 0]

ConcurrentSpec == ConcurrentInit /\ [][Next]_vars

\* --------------------------------------------------- connectivity probe

\* What becomes of the GET /health request: a 2xx response within the
\* timeout, a response of another status, a network error, or no response
\* within the timeout.  axios resolves the first and rejects the others.
HealthOutcomes == {"2xx", "non2xx", "networkError", "timeout"}

\* Mutant: only a network error counts as unreachable.
checkConnectivity_Lenient(health) ==
  IF health = "networkError" THEN "false" ELSE "true"

\* checkConnectivity: true after the awaited GET resolves, false from the
\* catch block; nothing is thrown past it.
checkConnectivity(health) ==
  IF health = "2xx" THEN "true" ELSE "false"

\* POST /sync and GET /status probe the remote; the probe may fall in the
\* middle of a cycle.
Probe ==
  \E health \in HealthOutcomes :
    /\ ev' = [NoEvent EXCEPT !.kind = "checkConnectivity",
                             !.health = health,
                             !.returned = checkConnectivity(health)]
    /\ UNCHANGED <<tasks, queue, now, nextId, calls, online, config, faults,
                   cyc, hist>>

ProbeNext == Next \/ Probe

\* The queue is built up and drained by one sync() call; probes are made at
\* any time.
ProbeInit ==
  InitWith(MaxEntries, DefaultMaxRetries, FALSE, PlainAnswers,
           MaxOfflineCalls)

ProbeSpec == ProbeInit /\ [][ProbeNext]_vars

\* --------------------------------------------------- parsed batch sizes

\* The values parseInt(process.env.SYNC_BATCH_SIZE || '50', 10) yields for a
\* numeral that is not negative: 0 is one of them.
ParsedBatchSizes == {0} \cup ConfiguredBatchSizes

\* The queue is built up and drained by one sync() call of a service
\* constructed with any parsed batch size.
ParsedInit ==
  /\ tasks = <<>>
  /\ queue = <<>>
  /\ now = 1
  /\ nextId = 0
  /\ budget = MaxEntries
  /\ late = FALSE
  /\ overlap = FALSE
  /\ answers = PlainAnswers
  /\ calls = MaxOfflineCalls
  /\ faults = 0
  /\ online = FALSE
  /\ batchSize \in ParsedBatchSizes
  /\ maxRetries = DefaultMaxRetries
  /\ cyc = [p \in {1} |-> IdleCycle]
  /\ ev = NoEvent
  /\ dispatched = [e \in EntryIds |-> 0]
  /\ acked = [e \in EntryIds |-> 0]
  /\ fails = [e \in EntryIds |-> 0]
  /\ failedFor = [e \in EntryIds |-> 0]

ParsedSpec == ParsedInit /\ [][Next]_vars

\* ------------------------------------------- mutations during a cycle

\* The task routes and the sync routes run on one event loop: a request to
\* create, update or delete a task is served at any await of a running
\* sync().  Two sync() calls follow each other.
InterleavedInit ==
  /\ tasks = <<>>
  /\ queue = <<>>
  /\ now = 1
  /\ nextId = 0
  /\ budget = MaxEntries
  /\ late = TRUE
  /\ overlap = TRUE
  /\ answers = PlainAnswers
  /\ calls = MaxInterleavedCalls
  /\ faults = 0
  /\ online = FALSE
  /\ batchSize \in ConfiguredBatchSizes
  /\ maxRetries = DefaultMaxRetries
  /\ cyc = [p \in {1} |-> IdleCycle]
  /\ ev = NoEvent
  /\ dispatched = [e \in EntryIds |-> 0]
  /\ acked = [e \in EntryIds |-> 0]
  /\ fails = [e \in EntryIds |-> 0]
  /\ failedFor = [e \in EntryIds |-> 0]

InterleavedSpec == InterleavedInit /\ [][Next]_vars

\* ------------------------------------------------- resolved versions

\* A version of a record as the remote resolves it: its title, the remote's
\* id, the remote's timestamps and a key updateSyncStatus does not know.
ServerVersion ==
  [title |-> "Server Wins", id |-> "s2", created_at |-> NoTime,
   updated_at |-> 1, sync_status |-> "pending"]

\* Success and conflict items with and without server_id and resolved data.
ResolveAnswers ==
  { [status |-> s, server_id |-> sid, resolved_data |-> rd] :
      s \in {"success", "conflict"}, sid \in {"", "s1"},
      rd \in {<<>>, <<ServerVersion>>} }

\* Mutations and cycles alternate; the remote acknowledges every entry it
\* answers for, as a success or as a resolved conflict.
ResolveInit ==
  InitWith(MaxEntries, DefaultMaxRetries, TRUE, ResolveAnswers, -1)

ResolveSpec == ResolveInit /\ [][Next]_vars

\* ------------------------------------------------------------------ claims

Has(q, id) == \E k \in DOMAIN q : q[k].id = id

RowOf(q, id) == q[CHOOSE k \in DOMAIN q : q[k].id = id]

InQueue(id) == Has(queue, id)

Row(id) == RowOf(queue, id)

\* The steps that hand an entry to the retry policy.
FailureKinds == {"error", "missing", "transport"}

\* The outcomes of the cycle p, as a set of positions of its history.
Outcomes(p) == DOMAIN cyc[p].outcome

\* The outcome at position k is the last one of its record in the cycle.
LastForRecord(p, k) ==
  \A j \in Outcomes(p) :
    j > k => cyc[p].outcome[j].task # cyc[p].outcome[k].task

\* C1 as stated: when sync() returns, the record of every entry that got a
\* success item with server_id s is synced with server_id s and
\* last_synced_at set, and the entry is gone.
C1_SyncedAtReturn ==
  \A p \in DOMAIN cyc :
    cyc[p].pc = "done" =>
      \A k \in Outcomes(p) :
        LET o == cyc[p].outcome[k]
        IN  (o.kind = "success" /\ o.server_id # "") =>
              /\ tasks[o.task].sync_status = "synced"
              /\ tasks[o.task].server_id = o.server_id
              /\ tasks[o.task].last_synced_at # NoTime
              /\ ~InQueue(o.id)

\* C1, amended: the step that reconciles a success item with server_id s
\* leaves the record synced with server_id s and last_synced_at set, deletes
\* the entry and adds one to synced_items, whatever the retry_count; this
\* still holds when sync() returns if no entry of the same record was
\* handled later in the cycle.
C1_SuccessReconciled ==
  /\ [][ (ev'.kind = "success" /\ ev'.server_id # "") =>
           /\ tasks'[ev'.task].sync_status = "synced"
           /\ tasks'[ev'.task].server_id = ev'.server_id
           /\ tasks'[ev'.task].last_synced_at = now
           /\ tasks'[ev'.task].last_synced_at # NoTime
           /\ InQueue(ev'.id) /\ ~Has(queue', ev'.id)
           /\ \A p \in DOMAIN cyc :
                cyc'[p].result.synced_items = cyc[p].result.synced_items + 1
         ]_vars
  /\ [](\A p \in DOMAIN cyc :
          cyc[p].pc = "done" =>
            \A k \in Outcomes(p) :
              LET o == cyc[p].outcome[k]
              IN  (o.kind = "success" /\ o.server_id # ""
                   /\ LastForRecord(p, k)) =>
                    /\ tasks[o.task].sync_status = "synced"
                    /\ tasks[o.task].server_id = o.server_id
                    /\ tasks[o.task].last_synced_at # NoTime
                    /\ ~InQueue(o.id))

\* C1 witness: a success item was reconciled for an entry that had already
\* been retried, and sync() has returned.
C1_Witness ==
  \E p \in DOMAIN cyc :
    /\ cyc[p].pc = "done"
    /\ \E k \in Outcomes(p) :
         /\ cyc[p].outcome[k].kind = "success"
         /\ cyc[p].outcome[k].server_id = "s1"
         /\ fails[cyc[p].outcome[k].id] = 2
         /\ tasks[cyc[p].outcome[k].task].sync_status = "synced"
         /\ tasks[cyc[p].outcome[k].task].server_id = "s1"

\* C2 as stated: after a cycle in which an entry failed for the third time
\* its retry_count is 3 and its record is in status error; after the cycle of
\* its fourth failure the record is in status failed.
C2_StatusAfterCycle ==
  \A p \in DOMAIN cyc :
    cyc[p].pc = "done" =>
      \A k \in Outcomes(p) :
        LET o == cyc[p].outcome[k]
        IN  o.kind \in FailureKinds =>
              /\ fails[o.id] = 3 =>
                    /\ InQueue(o.id) /\ Row(o.id).retry_count = 3
                    /\ tasks[o.task].sync_status = "error"
              /\ fails[o.id] = 4 => tasks[o.task].sync_status = "failed"

\* C2, amended: with max_retries = 3 the stored retry_count of an entry is the
\* number of cycles it failed in; the step that handles its first, second or
\* third failure leaves the record in status error, unless the record is
\* already failed, and then it stays failed; the step that handles the fourth
\* failure sets the record to failed and removes the entry; failed_items is
\* incremented for an entry only then, once, and the entry is not dispatched
\* after that.
C2_BoundedRetries ==
  /\ [](/\ maxRetries = 3
        /\ \A k \in DOMAIN queue :
             /\ queue[k].retry_count = fails[queue[k].id]
             /\ queue[k].retry_count <= 3
        /\ \A id \in EntryIds :
             /\ failedFor[id] <= 1
             /\ fails[id] <= 4
             /\ dispatched[id] <= 4
             /\ failedFor[id] = 1 <=> fails[id] = 4
             /\ fails[id] = 4 => ~InQueue(id) /\ dispatched[id] = 4)
  /\ [][ ev'.kind \in FailureKinds =>
           /\ fails'[ev'.id] = ev'.rc + 1
           /\ fails'[ev'.id] <= 3 =>
                 /\ Has(queue', ev'.id)
                 /\ tasks'[ev'.task].sync_status =
                      IF tasks[ev'.task].sync_status = "failed"
                      THEN "failed" ELSE "error"
                 /\ failedFor'[ev'.id] = 0
                 /\ \A p \in DOMAIN cyc :
                      cyc'[p].result.failed_items = cyc[p].result.failed_items
           /\ fails'[ev'.id] = 4 =>
                 /\ tasks'[ev'.task].sync_status = "failed"
                 /\ ~Has(queue', ev'.id)
                 /\ failedFor[ev'.id] = 0 /\ failedFor'[ev'.id] = 1
                 /\ \A p \in DOMAIN cyc :
                      cyc'[p].result.failed_items =
                        cyc[p].result.failed_items + 1
         ]_vars

\* C2 witness: an entry failed in four cycles; its record is failed and a
\* later cycle is under way.
C2_Witness ==
  \E id \in EntryIds :
    /\ fails[id] = 4 /\ failedFor[id] = 1 /\ dispatched[id] = 4
    /\ \E t \in DOMAIN tasks : tasks[t].sync_status = "failed"
    /\ \E p \in DOMAIN cyc : cyc[p].pc = "sent"

\* C3 as stated: an entry that exhausted its retries remains in the outbox.
C3_ExhaustedEntryRemains ==
  \A id \in EntryIds : failedFor[id] > 0 => InQueue(id)

\* C3, amended: the step in which an entry exhausts its retries sets the
\* record's sync_status to failed and deletes the entry; sync() deletes an
\* entry only after a success or conflict outcome or on exhaustion, and no
\* other operation deletes one.
C3_QuarantineDeletes ==
  /\ [][ (ev'.kind \in FailureKinds /\ ev'.rc + 1 > maxRetries) =>
           /\ InQueue(ev'.id) /\ ~Has(queue', ev'.id)
           /\ tasks'[ev'.task].sync_status = "failed"
         ]_vars
  /\ [][ \A id \in EntryIds :
           (InQueue(id) /\ ~Has(queue', id)) =>
             /\ ev'.id = id
             /\ \/ ev'.kind \in {"success", "conflict"}
                \/ ev'.kind \in FailureKinds /\ ev'.rc + 1 > maxRetries
         ]_vars

\* C3 witness: an entry has just exhausted its retries; it is gone and its
\* record is failed.
C3_Witness ==
  /\ ev.kind \in FailureKinds
  /\ ev.rc = maxRetries
  /\ ~InQueue(ev.id)
  /\ tasks[ev.task].sync_status = "failed"

\* C4 as stated: after the step that handles an entry of a failed batch whose
\* retry_count was below the cap, the entry is in the queue with retry_count
\* one higher and an error_message, and its record is in status error.
C4_RecordIsError ==
  (ev.kind = "transport" /\ ev.rc < maxRetries) =>
    /\ InQueue(ev.id)
    /\ Row(ev.id).retry_count = ev.rc + 1
    /\ Row(ev.id).error_message # ""
    /\ tasks[ev.task].sync_status = "error"

\* C4, amended: when the batch request fails, every entry of the batch is
\* handed to the retry policy exactly once; an entry whose retry_count was
\* below the cap stays in the queue with retry_count + 1 and error_message
\* set, one temporary-failure error is appended for it, failed_items is not
\* incremented and success is false; its record's sync_status is error,
\* unless an exhausted entry of the same record has set it to failed, and
\* then it stays failed.
C4_BatchFailure ==
  /\ [][ \A p \in DOMAIN cyc :
           (ev'.kind = "transport" /\ ev'.rc < maxRetries) =>
             /\ Has(queue', ev'.id)
             /\ RowOf(queue', ev'.id).retry_count = Row(ev'.id).retry_count + 1
             /\ RowOf(queue', ev'.id).retry_count = ev'.rc + 1
             /\ RowOf(queue', ev'.id).error_message = "Batch processing failed"
             /\ tasks'[ev'.task].sync_status =
                  IF tasks[ev'.task].sync_status = "failed"
                  THEN "failed" ELSE "error"
             /\ cyc'[p].result.errors =
                  Append(cyc[p].result.errors,
                         [task_id |-> ev'.task,
                          operation |-> Row(ev'.id).operation,
                          error |-> "temp"])
             /\ cyc'[p].result.failed_items = cyc[p].result.failed_items
             /\ ~cyc'[p].result.success
         ]_vars
  /\ [](\A p \in DOMAIN cyc :
          LET c == cyc[p]
              handled(id) == {k \in Outcomes(p) : c.outcome[k].id = id}
          IN  /\ \A id \in EntryIds : Cardinality(handled(id)) <= 1
              /\ c.batchFailed => ~c.result.success
              /\ c.pc = "catch" =>
                   \A j \in DOMAIN c.batch :
                     LET done == j <= Len(c.batch) - Len(c.rest)
                     IN  /\ done =>
                              \E k \in handled(c.batch[j].id) :
                                c.outcome[k].kind = "transport"
                         /\ ~done => handled(c.batch[j].id) = {})

\* C4 witness: the last entry of a failed batch of two has been handled; it
\* was below the cap, is still queued and its record is in status error.
C4_Witness ==
  /\ ev.kind = "transport"
  /\ ev.rc < maxRetries
  /\ InQueue(ev.id)
  /\ Row(ev.id).retry_count = ev.rc + 1
  /\ tasks[ev.task].sync_status = "error"
  /\ \E p \in DOMAIN cyc :
       /\ Cardinality({k \in Outcomes(p) :
                         cyc[p].outcome[k].kind = "transport"}) = 2
       /\ ~cyc[p].result.success

\* C5: the step that reconciles a conflict item carrying resolved_data gives
\* the record the resolved title, sets it synced, deletes the entry, adds one
\* to synced_items and exactly one conflict advisory to errors, and changes
\* neither failed_items nor success.
C5_ConflictConvergence ==
  [][ \A p \in DOMAIN cyc :
       (ev'.kind = "conflict" /\ ev'.resolved # <<>>) =>
         /\ "title" \in DOMAIN ev'.resolved[1] =>
               tasks'[ev'.task].title = ev'.resolved[1].title
         /\ tasks'[ev'.task].sync_status = "synced"
         /\ InQueue(ev'.id) /\ ~Has(queue', ev'.id)
         /\ cyc'[p].result.synced_items = cyc[p].result.synced_items + 1
         /\ cyc'[p].result.failed_items = cyc[p].result.failed_items
         /\ cyc'[p].result.success = cyc[p].result.success
         /\ cyc'[p].result.errors =
              Append(cyc[p].result.errors,
                     [task_id |-> ev'.task,
                      operation |-> Row(ev'.id).operation,
                      error |-> "conflict"])
    ]_vars

\* C5 witness: a conflict was resolved for a locally updated record, the
\* record carries the server's title and the run is still a success.
C5_Witness ==
  /\ ev.kind = "conflict"
  /\ tasks[ev.task].title = "Server Wins"
  /\ tasks[ev.task].sync_status = "synced"
  /\ \E p \in DOMAIN cyc :
       /\ cyc[p].result.success
       /\ cyc[p].result.errors =
            <<[task_id |-> ev.task, operation |-> "update",
               error |-> "conflict"]>>

\* The ids a cycle has sent so far, in the order it sent them.
SentIds(p) == Flatten(cyc[p].sent)

\* Position of the row with this id in the table the cycle loaded.
RowPos(p, id) == CHOOSE k \in DOMAIN cyc[p].rows : cyc[p].rows[k].id = id

\* The dispatch order: created_at ascending, ties by insertion order.
DispatchedBefore(p, id1, id2) ==
  LET r1 == cyc[p].rows[RowPos(p, id1)]
      r2 == cyc[p].rows[RowPos(p, id2)]
  IN  \/ r1.created_at < r2.created_at
      \/ r1.created_at = r2.created_at /\ RowPos(p, id1) < RowPos(p, id2)

\* The ids of the parseable rows the cycle loaded.
Parseable(p) ==
  {cyc[p].rows[k].id : k \in {j \in DOMAIN cyc[p].rows : cyc[p].rows[j].data_ok}}

BatchCount(n) == (n + batchSize - 1) \div batchSize

\* C7: when a cycle ends every batch of the loaded entries has been sent and
\* every entry handled exactly once, whether or not a batch failed; the
\* entries of a failed batch went to the retry policy and those of the other
\* batches were reconciled by their own outcome; if a batch failed success is
\* false; synced_items is the number of entries acknowledged success or
\* conflict.
C7_BatchIsolation ==
  \A p \in DOMAIN cyc :
    LET c == cyc[p]
        failedBatches ==
          {c.outcome[k].batch : k \in {j \in Outcomes(p) :
                                         c.outcome[j].kind = "transport"}}
    IN  c.pc = "done" =>
          /\ Len(c.sent) = BatchCount(Len(c.queueItems))
          /\ \A j \in DOMAIN c.queueItems :
               Cardinality({k \in Outcomes(p) :
                              c.outcome[k].id = c.queueItems[j].id}) = 1
          /\ \A k \in Outcomes(p) :
               /\ c.outcome[k].id \in
                    {c.sent[c.outcome[k].batch][a] :
                       a \in DOMAIN c.sent[c.outcome[k].batch]}
               /\ c.outcome[k].batch \in failedBatches =>
                    c.outcome[k].kind = "transport"
          /\ c.batchFailed <=> failedBatches # {}
          /\ failedBatches # {} => ~c.result.success
          /\ c.result.synced_items =
               Cardinality({k \in Outcomes(p) :
                              /\ c.outcome[k].kind \in {"success", "conflict"}
                              /\ c.outcome[k].batch \notin failedBatches})

\* C7 witness: in a cycle of three batches the second failed, and entries of
\* the first and of the third were acknowledged.
C7_Witness ==
  \E p \in DOMAIN cyc :
    LET c == cyc[p]
        kindIn(b) == {c.outcome[k].kind : k \in {j \in Outcomes(p) :
                                                    c.outcome[j].batch = b}}
    IN  /\ c.pc = "done"
        /\ Len(c.sent) = 3
        /\ kindIn(1) = {"success"}
        /\ kindIn(2) = {"transport"}
        /\ kindIn(3) = {"conflict"}
        /\ c.result.synced_items = 2
        /\ ~c.result.success

\* C8: an entry the remote acknowledged (success or conflict) is acknowledged
\* once, is no longer in the outbox and is in no batch that is marked or in
\* flight afterwards.
C8_AtMostOnce ==
  \A id \in EntryIds :
    /\ acked[id] <= 1
    /\ acked[id] = 1 =>
         /\ ~InQueue(id)
         /\ \A p \in DOMAIN cyc :
              cyc[p].pc \in {"marked", "sent"} =>
                \A k \in DOMAIN cyc[p].batch : cyc[p].batch[k].id # id

\* C8 witness: an entry was acknowledged in an earlier cycle and the request
\* of a later cycle is in flight.
C8_Witness ==
  \E id \in EntryIds :
    /\ acked[id] = 1
    /\ \E p \in DOMAIN cyc :
         /\ cyc[p].pc = "sent"
         /\ \A k \in Outcomes(p) : cyc[p].outcome[k].id # id
         /\ \A k \in DOMAIN cyc[p].rows : cyc[p].rows[k].id # id

\* An entry has reached a terminal outcome: it is out of the outbox, either
\* acknowledged or counted as a permanent failure.
Resolved(id) == ~InQueue(id) /\ (acked[id] = 1 \/ failedFor[id] = 1)

\* C9: when sync() is invoked again and again and no new mutation arrives,
\* every entry in the outbox is eventually resolved and stays resolved, and
\* no entry is sent more than max_retries + 1 times.
C9_EventualResolution ==
  /\ \A id \in EntryIds : InQueue(id) ~> [] Resolved(id)
  /\ [](\A id \in EntryIds : dispatched[id] <= maxRetries + 1)

\* C9 witness: of two entries, one was acknowledged at its last permitted
\* attempt and the other quarantined after max_retries + 1 attempts.
C9_Witness ==
  \E id1, id2 \in EntryIds :
    /\ Resolved(id1) /\ acked[id1] = 1 /\ dispatched[id1] = maxRetries + 1
    /\ Resolved(id2) /\ failedFor[id2] = 1
    /\ dispatched[id2] = maxRetries + 1

\* C10 as stated: the returned success is true exactly when no batch failed
\* in transport and failed_items is 0.
C10_SuccessIff ==
  \A p \in DOMAIN cyc :
    cyc[p].pc = "done" =>
      (cyc[p].result.success <=>
         (~cyc[p].batchFailed /\ cyc[p].result.failed_items = 0))

\* C10, amended: the returned success is true exactly when no batch failed in
\* transport, no response left an entry of its batch without an item, and
\* failed_items is 0; per-item server errors on entries below the cap leave
\* it true.
C10_SuccessComputed ==
  \A p \in DOMAIN cyc :
    LET c == cyc[p]
        kinds == {c.outcome[k].kind : k \in Outcomes(p)}
    IN  c.pc = "done" =>
          /\ c.result.success <=>
               /\ ~c.batchFailed
               /\ ~c.missing
               /\ c.result.failed_items = 0
          /\ c.batchFailed <=> "transport" \in kinds
          /\ c.missing <=> "missing" \in kinds
          /\ c.result.failed_items =
               Cardinality({k \in Outcomes(p) :
                              /\ c.outcome[k].kind \in FailureKinds
                              /\ failedFor[c.outcome[k].id] = 1})
          /\ (kinds \subseteq {"success", "conflict", "error"}
              /\ c.result.failed_items = 0) => c.result.success

\* C10 witness: a cycle whose only problem was a per-item server error on an
\* entry below the cap has returned success = true.
C10_Witness ==
  \E p \in DOMAIN cyc :
    /\ cyc[p].pc = "done"
    /\ cyc[p].result.success
    /\ \E k \in Outcomes(p) : cyc[p].outcome[k].kind = "error"
    /\ cyc[p].result.failed_items = 0
    /\ Len(cyc[p].result.errors) = 1

\* C11: sync() on an empty outbox goes straight to its return with
\* {success: true, synced_items: 0, failed_items: 0, errors: []}, posts no
\* batch and changes no record and no outbox row, every time it is invoked.
C11_EmptyCycleNoOp ==
  /\ [][ \A p \in DOMAIN cyc :
           (cyc[p].pc = "idle" /\ cyc'[p].pc # "idle" /\ queue = <<>>) =>
             /\ cyc'[p].pc = "done"
             /\ cyc'[p].result = [success |-> TRUE, synced_items |-> 0,
                                  failed_items |-> 0, errors |-> <<>>]
             /\ cyc'[p].sent = <<>>
             /\ tasks' = tasks /\ queue' = queue
             /\ dispatched' = dispatched
         ]_vars
  /\ [][ \A p \in DOMAIN cyc :
           (cyc[p].pc = "done" /\ cyc[p].rows = <<>> /\ cyc'[p] # cyc[p]) =>
             /\ cyc'[p].pc = "idle"
             /\ tasks' = tasks /\ queue' = queue
             /\ dispatched' = dispatched
         ]_vars

\* C11 witness: after the outbox was drained, a cycle over the empty outbox
\* has reached its return.
C11_Witness ==
  /\ queue = <<>>
  /\ \E id \in EntryIds : acked[id] = 1
  /\ \E p \in DOMAIN cyc :
       /\ cyc[p].pc = "done"
       /\ cyc[p].rows = <<>>
       /\ cyc[p].result.success

\* C12: whatever the network and the storage layer do, no exception leaves
\* sync(): every exception is caught by one of its try statements, and a
\* cycle that has reached its return holds a SyncResult; a cycle that ended
\* in the outer catch returns success = false with the error reported.
C12_NeverThrows ==
  \A p \in DOMAIN cyc :
    /\ cyc[p].pc # "rejected"
    /\ cyc[p].pc \in {"idle", "loop", "marked", "sent", "items", "leftover",
                      "catch", "outerCatch", "done"}
    /\ cyc[p].pc = "done" =>
         /\ cyc[p].result.success \in BOOLEAN
         /\ cyc[p].result.synced_items \in Nat
         /\ cyc[p].result.failed_items \in Nat
         /\ DOMAIN cyc[p].result =
              {"success", "synced_items", "failed_items", "errors"}
    /\ (cyc[p].pc = "done" /\ ev.kind = "outerCatch") =>
         /\ ~cyc[p].result.success
         /\ cyc[p].result.errors # <<>>
         /\ cyc[p].result.errors[Len(cyc[p].result.errors)].task_id = "general"

\* C12 witness: the network request failed, then a storage read failed inside
\* the catch block, and sync() has reached its return.
C12_Witness ==
  \E p \in DOMAIN cyc :
    /\ cyc[p].pc = "done"
    /\ cyc[p].batchFailed
    /\ ev.kind = "outerCatch"
    /\ ~cyc[p].result.success
    /\ Len(cyc[p].result.errors) >= 1

MutationKinds == {"createTask", "updateTask", "deleteTask"}

\* C13: a record whose sync_status was failed when a sync() cycle started
\* keeps that status through the cycle (the cycle has handled no entry yet,
\* so the status dates from before it); only a create, update or delete
\* mutation changes it.
C13_FailedIsTerminal ==
  [][ \A t \in DOMAIN tasks :
        ( /\ tasks[t].sync_status = "failed"
          /\ ev'.kind \notin MutationKinds
          /\ \A p \in DOMAIN cyc : cyc[p].outcome = <<>> ) =>
          tasks'[t].sync_status = "failed"
    ]_vars

\* C14: the SyncResult of a cycle that loaded an outbox row whose payload
\* cannot be deserialized reports it: success is false or errors has an
\* entry.
C14_UnparseableReported ==
  \A p \in DOMAIN cyc :
    ( /\ cyc[p].pc = "done"
      /\ \E k \in DOMAIN cyc[p].rows : ~cyc[p].rows[k].data_ok ) =>
      \/ ~cyc[p].result.success
      \/ cyc[p].result.errors # <<>>

\* C15 as stated: after the step that handles an entry the response had no
\* item for, the entry has retry_count + 1 and its record is in status error
\* when it was below the cap, and its record is failed when it was not.
C15_MissingIsError ==
  ev.kind = "missing" =>
    IF ev.rc < maxRetries
    THEN /\ InQueue(ev.id)
         /\ Row(ev.id).retry_count = ev.rc + 1
         /\ tasks[ev.task].sync_status = "error"
    ELSE tasks[ev.task].sync_status = "failed"

\* C15, amended: when the response array is exhausted, every entry of the
\* batch that no item matched is handed to the retry policy with cause
\* 'No response item received' before the cycle goes on; below the cap the
\* entry keeps its place with retry_count + 1 and that error_message and its
\* record is in status error, or stays failed if an exhausted entry of the
\* same record has set it so; at the cap the record becomes failed and the
\* entry is removed.  No entry of a reconciled batch is left with its record
\* in-progress.
C15_MissingItemRetried ==
  /\ [][ ev'.kind = "missing" =>
           IF ev'.rc < maxRetries
           THEN /\ Has(queue', ev'.id)
                /\ RowOf(queue', ev'.id).retry_count = ev'.rc + 1
                /\ RowOf(queue', ev'.id).error_message =
                     "No response item received"
                /\ tasks'[ev'.task].sync_status =
                     IF tasks[ev'.task].sync_status = "failed"
                     THEN "failed" ELSE "error"
           ELSE /\ ~Has(queue', ev'.id)
                /\ tasks'[ev'.task].sync_status = "failed"
         ]_vars
  /\ [](\A p \in DOMAIN cyc :
          cyc[p].pc \in {"loop", "done"} =>
            /\ \A j \in DOMAIN cyc[p].sent :
                 \A a \in DOMAIN cyc[p].sent[j] :
                   \E k \in Outcomes(p) :
                     cyc[p].outcome[k].id = cyc[p].sent[j][a]
            /\ \A k \in Outcomes(p) :
                 tasks[cyc[p].outcome[k].task].sync_status # "in-progress")

\* C15 witness: a response of a batch of two carried an item for one entry
\* only; the other entry has been retried.
C15_Witness ==
  /\ ev.kind = "missing"
  /\ ev.rc < maxRetries
  /\ InQueue(ev.id)
  /\ Row(ev.id).retry_count = ev.rc + 1
  /\ Row(ev.id).error_message = "No response item received"
  /\ tasks[ev.task].sync_status = "error"
  /\ \E p \in DOMAIN cyc :
       \E k \in Outcomes(p) : cyc[p].outcome[k].kind = "success"

\* The entries of the batch of cycle p that no processed item has matched.
Unmatched(p) == {cyc[p].localBatch[k].task_id : k \in DOMAIN cyc[p].localBatch}

\* C16: a processed item whose client_id is the record of no unmatched entry
\* of the batch is ignored: it changes no record, no outbox row and nothing
\* of the SyncResult, and the cycle stays at the response, ready for the next
\* item; an item that is handled is matched to an unmatched entry of its own
\* client_id.
C16_UnknownItemIgnored ==
  [][ \A p \in DOMAIN cyc :
        (cyc[p].pc = "items" /\ ev'.kind # "responseEnd") =>
          /\ ev'.client \notin Unmatched(p) =>
                /\ ev'.kind = "ignored"
                /\ tasks' = tasks /\ queue' = queue
                /\ cyc'[p].result = cyc[p].result
                /\ cyc'[p].localBatch = cyc[p].localBatch
                /\ cyc'[p].outcome = cyc[p].outcome
                /\ cyc'[p].pc = "items"
                /\ hist' = hist
          /\ ev'.client \in Unmatched(p) =>
                /\ ev'.kind \in {"success", "conflict", "error"}
                /\ ev'.task = ev'.client
                /\ \E k \in DOMAIN cyc[p].localBatch :
                     /\ cyc[p].localBatch[k].id = ev'.id
                     /\ cyc[p].localBatch[k].task_id = ev'.client
                     /\ cyc'[p].localBatch = RemoveAt(cyc[p].localBatch, k)
    ]_vars

\* C16 witness: a second item for a record whose only entry had already been
\* matched was ignored, with another entry still unmatched.
C16_Witness ==
  /\ ev.kind = "ignored"
  /\ ev.client \in TaskIds
  /\ \E p \in DOMAIN cyc :
       /\ cyc[p].pc = "items"
       /\ Len(cyc[p].batch) = 2
       /\ Len(cyc[p].localBatch) = 1
       /\ cyc[p].result.synced_items = 1

\* The records of the entries of the current batch of cycle p.
BatchRecords(p) == {cyc[p].batch[k].task_id : k \in DOMAIN cyc[p].batch}

\* The records of the entries of the batches after the current one.
LaterRecords(p) ==
  {cyc[p].queueItems[k].task_id :
     k \in {j \in DOMAIN cyc[p].queueItems : j > cyc[p].i + batchSize}}

\* C17: when the request of a batch is issued and while it is in flight,
\* every record of an entry of the batch is in-progress, and no record that
\* only entries of later batches refer to is; the request is issued only
\* after the marking.
C17_MarkedBeforeSend ==
  /\ [](\A p \in DOMAIN cyc :
          cyc[p].pc \in {"marked", "sent"} =>
            /\ \A t \in BatchRecords(p) :
                 tasks[t].sync_status = "in-progress"
            /\ \A t \in LaterRecords(p) \ BatchRecords(p) :
                 tasks[t].sync_status # "in-progress")
  /\ [][ \A p \in DOMAIN cyc :
           Len(cyc'[p].sent) > Len(cyc[p].sent) =>
             /\ cyc[p].pc = "marked"
             /\ tasks' = tasks
             /\ \A t \in BatchRecords(p) :
                  tasks[t].sync_status = "in-progress"
         ]_vars

\* C17 witness: the request of the first batch is in flight, its record is
\* in-progress and the record of a later batch is still pending.
C17_Witness ==
  \E p \in DOMAIN cyc :
    /\ cyc[p].pc = "sent"
    /\ Len(cyc[p].sent) = 1
    /\ \A t \in BatchRecords(p) : tasks[t].sync_status = "in-progress"
    /\ \E t \in LaterRecords(p) \ BatchRecords(p) :
         tasks[t].sync_status = "pending"

\* C18: a crash in the middle of a cycle leaves the tables as they are, so
\* the entries of records marked in-progress survive with their retry_count;
\* every cycle loads every parseable row of the outbox, whatever the
\* sync_status of its record, and a cycle that is not cut short by a storage
\* error sends every entry it loaded.
C18_CrashRecovery ==
  /\ [][ ev'.kind = "crash" => (queue' = queue /\ tasks' = tasks) ]_vars
  /\ [][ \A p \in DOMAIN cyc :
           (ev'.kind = "start" /\ cyc[p].pc = "idle"
            /\ cyc'[p].pc # "idle") =>
             {cyc'[p].queueItems[k].id : k \in DOMAIN cyc'[p].queueItems}
               = {queue[k].id : k \in {j \in DOMAIN queue : queue[j].data_ok}}
         ]_vars
  /\ [](\A p \in DOMAIN cyc :
          ( /\ cyc[p].pc = "done"
            /\ \A k \in DOMAIN cyc[p].result.errors :
                 cyc[p].result.errors[k].error # "general" ) =>
            \A k \in DOMAIN cyc[p].queueItems :
              \E a \in DOMAIN SentIds(p) :
                SentIds(p)[a] = cyc[p].queueItems[k].id)

\* C18 witness: a cycle crashed with the request of an entry in flight; the
\* next cycle has sent the entry again, its retry_count still 0.
C18_Witness ==
  \E id \in EntryIds :
    /\ dispatched[id] = 2
    /\ fails[id] = 0 /\ acked[id] = 0
    /\ InQueue(id) /\ Row(id).retry_count = 0
    /\ \E p \in DOMAIN cyc :
         /\ cyc[p].pc = "sent"
         /\ \E k \in DOMAIN cyc[p].batch : cyc[p].batch[k].id = id

\* C19: every processed item that is handled consumes an entry of its own, so
\* no entry is handled twice in a cycle; and when every entry a cycle loaded
\* was answered with a success item, several of them for the same record
\* included, at the return every one of them is deleted, the outbox is
\* empty, synced_items is the number of entries, failed_items is 0 and
\* success is true.
C19_FullDrain ==
  \A p \in DOMAIN cyc :
    LET c == cyc[p]
    IN  /\ \A k1, k2 \in Outcomes(p) :
             k1 # k2 => c.outcome[k1].id # c.outcome[k2].id
        /\ ( /\ c.pc = "done"
              /\ c.queueItems # <<>>
              /\ \A k \in Outcomes(p) : c.outcome[k].kind = "success" ) =>
              /\ \A j \in DOMAIN c.queueItems : ~InQueue(c.queueItems[j].id)
              /\ queue = <<>>
              /\ c.result.synced_items = Len(c.queueItems)
              /\ c.result.failed_items = 0
              /\ c.result.success
              /\ c.result.errors = <<>>

\* C19 witness: one batch held the create and the update entry of one
\* record; two success items drained it.
C19_Witness ==
  \E p \in DOMAIN cyc :
    LET c == cyc[p]
    IN  /\ c.pc = "done"
        /\ Len(c.sent) = 1
        /\ Len(c.queueItems) >= 2
        /\ c.queueItems[1].task_id = c.queueItems[2].task_id
        /\ c.queueItems[1].operation = "create"
        /\ c.queueItems[2].operation = "update"
        /\ \A k \in Outcomes(p) : c.outcome[k].kind = "success"
        /\ queue = <<>>
        /\ c.result.synced_items = Len(c.queueItems)
        /\ c.result.success

\* The operation an outbox entry carries for each mutation.
OperationOf(kind) ==
  CASE kind = "createTask" -> "create"
    [] kind = "updateTask" -> "update"
    [] kind = "deleteTask" -> "delete"

\* C20: every successful createTask, updateTask or deleteTask appends exactly
\* one outbox entry with a fresh id, the id of the mutated record, its
\* operation and retry_count 0, keeps every earlier entry as it is, and sets
\* the record's sync_status to pending; before the first sync() the outbox
\* holds one entry per mutation, in mutation order.
C20_OneEntryPerMutation ==
  /\ [][ ev'.kind \in MutationKinds =>
           /\ ~Has(queue, ev'.id)
           /\ Len(queue') = Len(queue) + 1
           /\ SubSeq(queue', 1, Len(queue)) = queue
           /\ queue'[Len(queue')] =
                [id |-> ev'.id, task_id |-> ev'.task,
                 operation |-> OperationOf(ev'.kind), created_at |-> now',
                 retry_count |-> 0, error_message |-> "", data_ok |-> TRUE]
           /\ tasks'[ev'.task].sync_status = "pending"
           /\ \A t \in DOMAIN tasks :
                t # ev'.task => tasks'[t] = tasks[t]
         ]_vars
  /\ [](~online =>
          /\ Len(queue) = nextId
          /\ \A k \in DOMAIN queue :
               /\ queue[k].id = k
               /\ queue[k].retry_count = 0
               /\ queue[k].task_id \in DOMAIN tasks
          /\ \A j, k \in DOMAIN queue :
               j < k => queue[j].created_at <= queue[k].created_at)

\* C20 witness: a record was created, updated and deleted with no sync in
\* between; the outbox holds the three entries in that order.
C20_Witness ==
  /\ ~online
  /\ Len(queue) = 3
  /\ \A k \in DOMAIN queue : queue[k].task_id = 1
  /\ queue[1].operation = "create"
  /\ queue[2].operation = "update"
  /\ queue[3].operation = "delete"
  /\ tasks[1].sync_status = "pending"

\* The calls of updateTask and deleteTask that return null or false.
NotFoundKinds == {"updateNotFound", "deleteNotFound"}

\* C21: createTask, updateTask and deleteTask leave every outbox entry that
\* exists before the call as it is, retry_count and error_message included,
\* and in its place: a call that succeeds appends one entry behind them.  An
\* updateTask or deleteTask returns null or false exactly when the record is
\* missing or soft-deleted, and then it changes no record and no entry.  A
\* step that removes or changes an existing entry is a reconciliation step
\* of sync().
C21_CrudKeepsOutbox ==
  [][ /\ ev'.kind \in MutationKinds =>
           /\ Len(queue') = Len(queue) + 1
           /\ SubSeq(queue', 1, Len(queue)) = queue
      /\ ev'.kind \in {"updateTask", "deleteTask"} \cup NotFoundKinds =>
           ( ev'.kind \in NotFoundKinds
             <=> ( \/ ev'.task \notin DOMAIN tasks
                   \/ tasks[ev'.task].is_deleted ) )
      /\ ev'.kind \in NotFoundKinds => (tasks' = tasks /\ queue' = queue)
      /\ ( \E k \in DOMAIN queue :
             \/ ~Has(queue', queue[k].id)
             \/ RowOf(queue', queue[k].id) # queue[k] ) =>
           ev'.kind \in {"success", "conflict"} \cup FailureKinds
    ]_vars

\* C21 witness: deleteTask was called for a soft-deleted record while an
\* entry that has been retried waits in the outbox.
C21_Witness ==
  /\ ev.kind = "deleteNotFound"
  /\ ev.task \in DOMAIN tasks
  /\ tasks[ev.task].is_deleted
  /\ \E k \in DOMAIN queue :
       /\ queue[k].retry_count > 0
       /\ queue[k].error_message # ""

\* The processed item `a` with its status replaced.
WithStatus(a, clientId, status) ==
  [client_id |-> clientId, status |-> status, server_id |-> a.server_id,
   resolved_data |-> a.resolved_data]

\* C22: for every entry of a batch under reconciliation and every server_id
\* and resolved_data, the tables after a conflict item equal the tables after
\* a success item: the two results have the same success, synced_items and
\* failed_items and the conflict has one more entry in errors, the advisory
\* one.  Each step that reconciles a success or a conflict writes exactly
\* that state.
C22_ConflictAsSuccess ==
  /\ [](\A p \in DOMAIN cyc :
          cyc[p].pc = "items" =>
            \A k \in DOMAIN cyc[p].localBatch, a \in answers :
              LET item == cyc[p].localBatch[k]
                  s == ProcessItem(Store(p), now, maxRetries, item,
                                   WithStatus(a, item.task_id, "success"))
                  c == ProcessItem(Store(p), now, maxRetries, item,
                                   WithStatus(a, item.task_id, "conflict"))
              IN  /\ c.tasks = s.tasks
                  /\ c.queue = s.queue
                  /\ c.result.success = s.result.success
                  /\ c.result.synced_items = s.result.synced_items
                  /\ c.result.failed_items = s.result.failed_items
                  /\ c.result.errors =
                       Append(s.result.errors, SyncError(item, "conflict")))
  /\ [][ \A p \in DOMAIN cyc :
          ev'.kind \in {"success", "conflict"} =>
            LET st == updateSyncStatus(Store(p), now, ev'.id, ev'.task,
                                       "synced", ev'.server_id, ev'.resolved)
            IN  /\ tasks' = st.tasks
                /\ queue' = st.queue
                /\ ~Has(queue', ev'.id)
                /\ cyc'[p].result.synced_items =
                     cyc[p].result.synced_items + 1
                /\ cyc'[p].result.success = cyc[p].result.success
                /\ Len(cyc'[p].result.errors) =
                     Len(cyc[p].result.errors)
                       + (IF ev'.kind = "conflict" THEN 1 ELSE 0)
        ]_vars

\* C22 witness: a conflict item with a server_id and resolved data has been
\* reconciled; the record carries the resolved title and the entry is gone.
C22_Witness ==
  /\ ev.kind = "conflict"
  /\ ev.server_id = "s1"
  /\ ev.resolved = <<ServerVersion>>
  /\ tasks[ev.task].title = "Server Wins"
  /\ tasks[ev.task].server_id = "s1"
  /\ tasks[ev.task].sync_status = "synced"
  /\ ~InQueue(ev.id)
  /\ \E p \in DOMAIN cyc :
       /\ cyc[p].result.synced_items = 1
       /\ Len(cyc[p].result.errors) = 1

\* The record columns C23 lists for resolved data.
ListedKeys ==
  {"title", "description", "completed", "is_deleted", "updated_at",
   "server_id"}

\* The resolved data rd without the keys outside K.
Restrict(rd, K) ==
  IF rd = <<>> THEN <<>> ELSE << [k \in DOMAIN rd[1] \cap K |-> rd[1][k]] >>

\* The columns of a record in which the rows a and b differ.
Written(a, b) == {col \in DOMAIN a : a[col] # b[col]}

\* C23 as stated: a success or conflict step writes what it would write if
\* resolved_data had no key but title, description, completed, is_deleted,
\* updated_at and server_id.
C23_OnlyListedKeys ==
  [][ \A p \in DOMAIN cyc :
        ev'.kind \in {"success", "conflict"} =>
          tasks' = updateSyncStatus(Store(p), now, ev'.id, ev'.task, "synced",
                                    ev'.server_id,
                                    Restrict(ev'.resolved, ListedKeys)).tasks
    ]_vars

\* C23, amended: a success or conflict step changes no record but the one of
\* its entry and no column of it but title, is_deleted, updated_at,
\* server_id, sync_status and last_synced_at; it writes what it would write
\* if resolved_data had no key but the listed six and id, so every key
\* besides those seven is ignored; the key id is never written to the id
\* column, it is the server_id that is stored when neither the processed
\* item nor the resolved data carry a server_id.  No step of sync() changes
\* the id or the created_at of a record.
C23_AllowList ==
  /\ [][ \A p \in DOMAIN cyc :
          ev'.kind \in {"success", "conflict"} =>
            /\ \A t \in DOMAIN tasks :
                 /\ t # ev'.task => tasks'[t] = tasks[t]
                 /\ Written(tasks[t], tasks'[t]) \subseteq
                      {"title", "is_deleted", "updated_at", "server_id",
                       "sync_status", "last_synced_at"}
            /\ tasks' = updateSyncStatus(
                          Store(p), now, ev'.id, ev'.task, "synced",
                          ev'.server_id,
                          Restrict(ev'.resolved, ListedKeys \cup {"id"})).tasks
            /\ ( /\ ev'.server_id = ""
                 /\ ev'.resolved # <<>>
                 /\ "server_id" \notin DOMAIN ev'.resolved[1]
                 /\ "id" \in DOMAIN ev'.resolved[1] ) =>
                 tasks'[ev'.task].server_id = ev'.resolved[1].id
        ]_vars
  /\ [][ ev'.kind \notin MutationKinds =>
          /\ DOMAIN tasks' = DOMAIN tasks
          /\ \A t \in DOMAIN tasks :
               /\ tasks'[t].id = tasks[t].id
               /\ tasks'[t].created_at = tasks[t].created_at
        ]_vars

\* C23 witness: an item without server_id whose resolved data carry a title,
\* an id, a created_at and a sync_status has been reconciled: the record has
\* the resolved title, the resolved id as server_id, its own id and
\* created_at, and is synced.
C23_Witness ==
  /\ ev.kind \in {"success", "conflict"}
  /\ ev.server_id = ""
  /\ ev.resolved = <<ServerVersion>>
  /\ tasks[ev.task].title = "Server Wins"
  /\ tasks[ev.task].server_id = "s2"
  /\ tasks[ev.task].id = ev.task
  /\ tasks[ev.task].created_at # ServerVersion.created_at
  /\ tasks[ev.task].sync_status = "synced"

\* C24: no step, neither a mutation nor a reconciliation, lowers the
\* updated_at of a record.
C24_UpdatedAtMonotonic ==
  [][ \A t \in DOMAIN tasks : tasks'[t].updated_at >= tasks[t].updated_at
    ]_vars

\* The position of the entry id in the order in which sync() loads q.
LoadPos(q, id) ==
  LET rows == SelectQueueOrdered(q)
  IN  CHOOSE k \in DOMAIN rows : rows[k].id = id

\* C25: a step of the retry policy that keeps its entry changes nothing of
\* it but retry_count and error_message: id, record, operation, payload and
\* created_at stay.  No step changes the relative position, in the order of
\* loading, of two entries that are in the outbox before and after it; and
\* a cycle loads every parseable entry, retried or not, in that order.  So
\* the next cycle dispatches a retried entry at its old place among the
\* surviving entries.
C25_RetryKeepsPlace ==
  /\ [][ (ev'.kind \in FailureKinds /\ Has(queue', ev'.id)) =>
          /\ Has(queue, ev'.id)
          /\ [RowOf(queue', ev'.id) EXCEPT !.retry_count = 0,
                                           !.error_message = ""]
               = [RowOf(queue, ev'.id) EXCEPT !.retry_count = 0,
                                             !.error_message = ""]
          /\ RowOf(queue', ev'.id).retry_count = ev'.rc + 1
        ]_vars
  /\ [][ \A a, b \in EntryIds :
          ( /\ Has(queue, a) /\ Has(queue, b)
            /\ Has(queue', a) /\ Has(queue', b) ) =>
            ( LoadPos(queue', a) < LoadPos(queue', b)
              <=> LoadPos(queue, a) < LoadPos(queue, b) )
        ]_vars
  /\ [][ \A p \in DOMAIN cyc :
          ev'.kind = "start" =>
            cyc'[p].queueItems =
              SelectSeq(SelectQueueOrdered(queue), LAMBDA r : r.data_ok)
        ]_vars

\* C25 witness: a cycle has loaded an entry that failed in an earlier cycle
\* in front of an entry that was appended after that failure.
C25_Witness ==
  \E p \in DOMAIN cyc :
    /\ cyc[p].pc = "loop"
    /\ cyc[p].i = 0
    /\ Len(cyc[p].queueItems) = 2
    /\ cyc[p].queueItems[1].retry_count > 0
    /\ cyc[p].queueItems[2].retry_count = 0
    /\ cyc[p].queueItems[1].created_at < cyc[p].queueItems[2].created_at

\* C26: with one cycle at a time, the stored retry_count of an entry never
\* decreases while the entry is in the outbox; a step that hands the entry
\* to the retry policy and keeps it adds exactly 1, and no other step
\* changes it; a cycle hands an entry to the retry policy at most once.  So
\* the retry_count of an entry in the outbox is the number of times it has
\* been handed to the retry policy, and it is 0 for a new entry.
C26_RetryAccounting ==
  /\ [](\A k \in DOMAIN queue :
          queue[k].retry_count = fails[queue[k].id])
  /\ [][ \A e \in EntryIds :
          (Has(queue, e) /\ Has(queue', e)) =>
            RowOf(queue', e).retry_count =
              RowOf(queue, e).retry_count
                + (IF ev'.kind \in FailureKinds /\ ev'.id = e THEN 1 ELSE 0)
        ]_vars
  /\ [][ \A e \in EntryIds :
          (~Has(queue, e) /\ Has(queue', e)) =>
            /\ ev'.kind \in MutationKinds
            /\ RowOf(queue', e).retry_count = 0
        ]_vars
  /\ [](\A p \in DOMAIN cyc :
          \A j, k \in Outcomes(p) :
            cyc[p].outcome[j].id = cyc[p].outcome[k].id => j = k)

\* C26 witness: an entry has been sent and handed to the retry policy in two
\* cycles and is stored with retry_count 2 when the second cycle returns.
C26_Witness ==
  /\ \A p \in DOMAIN cyc : cyc[p].pc = "idle"
  /\ \E k \in DOMAIN queue :
       /\ queue[k].retry_count = 2
       /\ fails[queue[k].id] = 2
       /\ dispatched[queue[k].id] = 2
  /\ ev.kind = "return"

\* C27 as stated: after the step that handles a processed item of status
\* error for an entry below the cap, the entry has retry_count + 1 and its
\* record is in status error.
C27_ItemErrorSetsError ==
  (ev.kind = "error" /\ ev.rc < maxRetries) =>
    /\ InQueue(ev.id)
    /\ Row(ev.id).retry_count = ev.rc + 1
    /\ tasks[ev.task].sync_status = "error"

\* C27, amended: the step that handles a processed item of a status other
\* than success and conflict touches its matched entry and that entry's
\* record only: every other outbox row and every other record is as before,
\* the other unmatched entries of the batch stay unmatched and the cycle
\* goes on with the next item of the response.  Below the cap the entry
\* stays with retry_count + 1 and the server's cause, one temporary-failure
\* error is appended, and the record is in status error, or stays failed if
\* an exhausted entry of the same record has set it so; at the cap the
\* entry is removed, the record is failed and one permanent-failure error is
\* appended.
C27_ItemErrorIsolated ==
  [][ \A p \in DOMAIN cyc :
        ev'.kind = "error" =>
          /\ \A k \in DOMAIN queue :
               queue[k].id # ev'.id =>
                 /\ Has(queue', queue[k].id)
                 /\ RowOf(queue', queue[k].id) = queue[k]
          /\ \A t \in DOMAIN tasks :
               /\ t # ev'.task => tasks'[t] = tasks[t]
               /\ Written(tasks[t], tasks'[t]) \subseteq {"sync_status"}
          /\ cyc'[p].pc = "items"
          /\ Len(cyc'[p].localBatch) = Len(cyc[p].localBatch) - 1
          /\ \A k \in DOMAIN cyc'[p].localBatch :
               /\ cyc'[p].localBatch[k].id # ev'.id
               /\ \E j \in DOMAIN cyc[p].localBatch :
                    cyc[p].localBatch[j] = cyc'[p].localBatch[k]
          /\ cyc'[p].result.synced_items = cyc[p].result.synced_items
          /\ cyc'[p].result.success = cyc[p].result.success
          /\ Len(cyc'[p].result.errors) = Len(cyc[p].result.errors) + 1
          /\ LET e == cyc'[p].result.errors[Len(cyc'[p].result.errors)]
             IN  /\ e.task_id = ev'.task
                 /\ e.error = IF ev'.rc < maxRetries THEN "temp"
                              ELSE "permanent"
          /\ IF ev'.rc < maxRetries
             THEN /\ Has(queue', ev'.id)
                  /\ RowOf(queue', ev'.id) =
                       [RowOf(queue, ev'.id) EXCEPT
                          !.retry_count = ev'.rc + 1,
                          !.error_message = "Unknown server error"]
                  /\ tasks'[ev'.task].sync_status =
                       IF tasks[ev'.task].sync_status = "failed"
                       THEN "failed" ELSE "error"
                  /\ cyc'[p].result.failed_items =
                       cyc[p].result.failed_items
             ELSE /\ ~Has(queue', ev'.id)
                  /\ tasks'[ev'.task].sync_status = "failed"
                  /\ cyc'[p].result.failed_items =
                       cyc[p].result.failed_items + 1
    ]_vars

\* C27 witness: in a batch of two entries of two records the first got an
\* item of status error and the second an item of status success: the first
\* is queued with retry_count 1 and its record is error, the second is gone
\* and its record is synced.
C27_Witness ==
  /\ ev.kind = "success"
  /\ ~InQueue(ev.id)
  /\ tasks[ev.task].sync_status = "synced"
  /\ \E p \in DOMAIN cyc :
       \E k \in Outcomes(p) :
         LET o == cyc[p].outcome[k]
         IN  /\ o.kind = "error"
             /\ o.batch = Len(cyc[p].sent)
             /\ o.task # ev.task
             /\ InQueue(o.id)
             /\ Row(o.id).retry_count = 1
             /\ tasks[o.task].sync_status = "error"

\* C28: sync() holds no lock.  An invocation that is called starts whatever
\* the position of the other invocations is, and it loads every parseable
\* entry of the outbox, those that another invocation has loaded, marked or
\* sent included.
C28_NoSerialization ==
  \A p \in DOMAIN cyc :
    (cyc[p].pc = "idle" /\ calls # 0) =>
      /\ ENABLED SyncStart(p)
      /\ \A q \in DOMAIN cyc :
           \A k \in DOMAIN cyc[q].batch :
             InQueue(cyc[q].batch[k].id) =>
               \E j \in DOMAIN mapRowToSyncQueueItem(SelectQueueOrdered(queue)) :
                 mapRowToSyncQueueItem(SelectQueueOrdered(queue))[j].id
                   = cyc[q].batch[k].id

\* C28 witness: two invocations overlap, both have loaded and sent the same
\* entry and both have handed it to the retry policy: it was sent twice and
\* failed twice, and its stored retry_count is 1.
C28_Witness ==
  /\ \A p \in Invocations : p \in DOMAIN cyc /\ cyc[p].pc = "done"
  /\ \E e \in EntryIds :
       /\ \A p \in Invocations :
            \E k \in Outcomes(p) :
              /\ cyc[p].outcome[k].id = e
              /\ cyc[p].outcome[k].kind \in FailureKinds
       /\ dispatched[e] = MaxInvocations
       /\ fails[e] = MaxInvocations
       /\ InQueue(e)
       /\ Row(e).retry_count = 1

\* C29: checkConnectivity returns true when the GET /health request got a
\* 2xx response within its timeout and false in every other case (another
\* status, a network error, a timeout); it always returns one of the two,
\* and it changes no record, no outbox entry and nothing of a cycle under
\* way.
C29_ConnectivityProbe ==
  [][ ev'.kind = "checkConnectivity" =>
        /\ ev'.returned \in {"true", "false"}
        /\ ev'.returned = "true" <=> ev'.health = "2xx"
        /\ tasks' = tasks
        /\ queue' = queue
        /\ cyc' = cyc
    ]_vars

\* C29 witness: the probe timed out while a batch was awaited; it returned
\* false, the record of the batch is still in-progress and its entry queued.
C29_Witness ==
  /\ ev.kind = "checkConnectivity"
  /\ ev.health = "timeout"
  /\ ev.returned = "false"
  /\ \E p \in DOMAIN cyc :
       /\ cyc[p].pc = "sent"
       /\ \A k \in DOMAIN cyc[p].batch :
            /\ InQueue(cyc[p].batch[k].id)
            /\ tasks[cyc[p].batch[k].task_id].sync_status = "in-progress"

\* C30: a step of sync() that writes synced, error or failed to the
\* sync_status of a record finds that record in-progress.  The steps that
\* reconcile a success or a conflict and those that exhaust an entry always
\* write; a retry below the cap writes unless the record is failed.
C30_OutcomeFromInProgress ==
  [][ ( /\ ev'.kind \in {"success", "conflict"} \cup FailureKinds
        /\ ~( /\ ev'.kind \in FailureKinds
              /\ ev'.rc < maxRetries
              /\ tasks[ev'.task].sync_status = "failed" ) ) =>
        tasks[ev'.task].sync_status = "in-progress"
    ]_vars

\* The steps that handle a processed item matched to an entry.
MatchedKinds == {"success", "conflict", "error"}

\* C31: a processed item that is handled is matched to one entry, the first
\* in queue order among the entries of the batch that have its client_id
\* and are not matched yet, and that entry alone leaves the unmatched ones;
\* an item whose client_id has no unmatched entry left, a surplus item of a
\* record included, is ignored and matches nothing.  So an entry is matched
\* by at most one item, and no entry is handled twice in a cycle.
C31_OneToOneMatching ==
  /\ [][ \A p \in DOMAIN cyc :
          (cyc[p].pc = "items" /\ ev'.kind \in MatchedKinds) =>
            LET lb   == cyc[p].localBatch
                hits == {k \in DOMAIN lb : lb[k].task_id = ev'.client}
            IN  /\ hits # {}
                /\ \E m \in hits :
                     /\ \A j \in hits : m <= j
                     /\ lb[m].id = ev'.id
                     /\ cyc'[p].localBatch =
                          [j \in 1 .. (Len(lb) - 1) |->
                             IF j < m THEN lb[j] ELSE lb[j + 1]]
                /\ Len(cyc'[p].outcome) = Len(cyc[p].outcome) + 1
        ]_vars
  /\ [][ \A p \in DOMAIN cyc :
          ev'.kind = "ignored" =>
            /\ ev'.client \notin Unmatched(p)
            /\ cyc'[p].localBatch = cyc[p].localBatch
            /\ cyc'[p].outcome = cyc[p].outcome
            /\ tasks' = tasks /\ queue' = queue
        ]_vars
  /\ [](\A p \in DOMAIN cyc :
          /\ \A j, k \in Outcomes(p) :
               cyc[p].outcome[j].id = cyc[p].outcome[k].id => j = k
          /\ cyc[p].pc = "items" =>
               \A k \in DOMAIN cyc[p].localBatch :
                 \A j \in Outcomes(p) :
                   cyc[p].outcome[j].id # cyc[p].localBatch[k].id)

\* C31 witness: a batch held two entries of one record; two items with its
\* client_id were matched to them in queue order and a third one, a
\* surplus, has been ignored.
C31_Witness ==
  /\ ev.kind = "ignored"
  /\ ev.client \in TaskIds
  /\ \E p \in DOMAIN cyc :
       /\ cyc[p].pc = "items"
       /\ cyc[p].localBatch = <<>>
       /\ \E j, k \in Outcomes(p) :
            /\ j < k
            /\ cyc[p].outcome[j].task = ev.client
            /\ cyc[p].outcome[k].task = ev.client
            /\ cyc[p].outcome[j].batch = cyc[p].outcome[k].batch
            /\ cyc[p].outcome[j].id < cyc[p].outcome[k].id
            /\ cyc[p].outcome[j].kind = "error"
            /\ cyc[p].outcome[k].kind = "success"

\* C32: a cycle that returns has sent every parseable entry it loaded, also
\* when a storage read or write failed while one of its batches was marked,
\* reconciled or run through the failure handling.
C32_LaterBatchesDispatched ==
  \A p \in DOMAIN cyc :
    cyc[p].pc = "done" =>
      \A k \in DOMAIN cyc[p].queueItems :
        \E j \in DOMAIN SentIds(p) : SentIds(p)[j] = cyc[p].queueItems[k].id

\* C33: for every parsed batch size a cycle sends a finite number of
\* batches: never more batches than it loaded entries, and exactly
\* ceil(n / b) of them by the time it returns when b >= 1.
C33_FiniteDispatches ==
  \A p \in DOMAIN cyc :
    /\ Len(cyc[p].sent) <= Len(cyc[p].queueItems)
    /\ (batchSize >= 1 /\ cyc[p].pc = "done") =>
         Len(cyc[p].sent) = BatchCount(Len(cyc[p].queueItems))

\* No sync() call is between its start and its return.
NoCycleInFlight == \A p \in DOMAIN cyc : cyc[p].pc = "idle"

\* The outbox entries of a record.
EntriesOf(q, taskId) == {k \in DOMAIN q : q[k].task_id = taskId}

\* C34: whenever no sync() cycle is in flight, a record whose sync_status
\* is synced has no outbox entry left in the queue.
C34_SyncedNothingOutstanding ==
  NoCycleInFlight =>
    \A t \in DOMAIN tasks :
      tasks[t].sync_status = "synced" => EntriesOf(queue, t) = {}

\* The entries appended to the queue after invocation p loaded it.
AppendedSinceLoad(p) ==
  {id \in EntryIds : InQueue(id) /\ ~Has(cyc[p].rows, id)}

\* C35: an outbox entry appended by a mutation while a sync() cycle is in
\* flight is kept as it is by every step of that cycle, whatever the cycle
\* does to the older entries of its record; the next cycle loads every
\* entry of the queue, and a cycle sends every entry it loaded before it
\* returns.
C35_MutationsNotLost ==
  /\ [][ \A p \in DOMAIN cyc :
          (cyc[p].pc # "idle" /\ ev'.kind \notin MutationKinds) =>
            \A id \in AppendedSinceLoad(p) :
              /\ Has(queue', id)
              /\ RowOf(queue', id) = Row(id)
        ]_vars
  /\ [][ \A p \in DOMAIN cyc :
          (cyc[p].pc = "idle" /\ cyc'[p].pc # "idle") =>
            \A k \in DOMAIN queue :
              Has(cyc'[p].queueItems, queue[k].id)
        ]_vars
  /\ [](\A p \in DOMAIN cyc :
          cyc[p].pc = "done" =>
            \A k \in DOMAIN cyc[p].queueItems :
              \E j \in DOMAIN SentIds(p) :
                SentIds(p)[j] = cyc[p].queueItems[k].id)

\* C35 witness: the first cycle of the run is about to return; it has
\* reconciled an entry and deleted its row, and an entry of the same record
\* that was appended while the cycle ran is in the queue, never retried.
C35_Witness ==
  /\ cyc[1].pc = "done"
  /\ calls = MaxInterleavedCalls - 1
  /\ \E id \in AppendedSinceLoad(1) :
       \E k \in DOMAIN cyc[1].queueItems :
         /\ cyc[1].queueItems[k].task_id = Row(id).task_id
         /\ acked[cyc[1].queueItems[k].id] = 1
         /\ ~InQueue(cyc[1].queueItems[k].id)
         /\ Row(id).retry_count = 0
         /\ dispatched[id] = 0

\* The records referenced by the entries invocation p has sent so far.
SentRecords(p) ==
  {cyc[p].queueItems[k].task_id :
     k \in {j \in DOMAIN cyc[p].queueItems :
              \E m \in DOMAIN SentIds(p) :
                SentIds(p)[m] = cyc[p].queueItems[j].id}}

\* The outcomes a cycle writes and the status a mutation writes.
SettledStatuses == {"synced", "error", "failed", "pending"}

\* The invocations other than p that are between their start and the end
\* of their loop.
OthersInFlight(p) ==
  {q \in DOMAIN cyc : q # p /\ cyc[q].pc \notin {"idle", "done"}}

\* C36: when a sync() cycle returns, a record referenced by an entry it
\* dispatched is synced, error, failed or pending, or it is in-progress
\* because another sync() invocation, still running, has marked it for a
\* batch of its own; once no invocation is running, no record is
\* in-progress.
C36_InFlightOnlyElsewhere ==
  /\ \A p \in DOMAIN cyc :
       cyc[p].pc = "done" =>
         \A t \in SentRecords(p) :
           \/ tasks[t].sync_status \in SettledStatuses
           \/ /\ tasks[t].sync_status = "in-progress"
              /\ \E q \in OthersInFlight(p) : t \in BatchRecords(q)
  /\ (\A p \in DOMAIN cyc : cyc[p].pc \in {"idle", "done"}) =>
       \A t \in DOMAIN tasks : tasks[t].sync_status \in SettledStatuses

\* C36 witness: an invocation is about to return; the record of the entry
\* it sent is in-progress, marked by the other invocation, which is still
\* running.
C36_Witness ==
  \E p \in DOMAIN cyc :
    /\ cyc[p].pc = "done"
    /\ \E t \in SentRecords(p) :
         /\ tasks[t].sync_status = "in-progress"
         /\ \E q \in OthersInFlight(p) : t \in BatchRecords(q)

\* C36 as stated: when a sync() cycle returns, no record referenced by an
\* entry it dispatched is in-progress: each is synced, error, failed or
\* pending.
C36_NoneLeftInFlight ==
  \A p \in DOMAIN cyc :
    cyc[p].pc = "done" =>
      \A t \in SentRecords(p) :
        tasks[t].sync_status \in SettledStatuses

\* The number of errors of kind `kind` in the result of invocation p.
ErrorCount(p, kind) ==
  Cardinality({k \in DOMAIN cyc[p].result.errors :
                 cyc[p].result.errors[k].error = kind})

\* The number of entries invocation p has handled with an outcome in kinds.
OutcomeCount(p, kinds) ==
  Cardinality({k \in Outcomes(p) : cyc[p].outcome[k].kind \in kinds})

\* C37: every entry a cycle handles is counted once: a success or a conflict
\* adds 1 to synced_items, a failure adds 1 to failed_items with a permanent
\* error or appends one temporary error; errors holds one element per
\* conflict, temporary failure and permanent failure.  When the cycle
\* returns, synced_items + failed_items + temporary errors is the number of
\* entries it loaded.
C37_ResultAccounting ==
  \A p \in DOMAIN cyc :
    LET r    == cyc[p].result
        temp == ErrorCount(p, "temp")
    IN  /\ r.synced_items = OutcomeCount(p, {"success", "conflict"})
        /\ r.failed_items + temp = OutcomeCount(p, FailureKinds)
        /\ r.failed_items = ErrorCount(p, "permanent")
        /\ Len(r.errors) = OutcomeCount(p, {"conflict"}) + temp + r.failed_items
        /\ cyc[p].pc = "done" =>
             r.synced_items + r.failed_items + temp = Len(cyc[p].queueItems)

\* C37 witness: a cycle that loaded two entries is about to return; one was
\* a resolved conflict and the other one exhausted its retries.
C37_Witness ==
  \E p \in DOMAIN cyc :
    /\ cyc[p].pc = "done"
    /\ Len(cyc[p].queueItems) = 2
    /\ OutcomeCount(p, {"conflict"}) = 1
    /\ cyc[p].result.failed_items = 1
    /\ cyc[p].result.synced_items = 1
    /\ Len(cyc[p].result.errors) = 2

\* C38: every outbox entry in the queue has a stored retry_count between 0
\* and the retry cap.
C38_RetryCountBounded ==
  \A k \in DOMAIN queue :
    /\ 0 <= queue[k].retry_count
    /\ queue[k].retry_count <= maxRetries

\* C38 witness: an entry has been handed to the retry policy as often as
\* the cap allows and is in the queue with retry_count equal to the cap,
\* next to an entry that was never retried.
C38_Witness ==
  /\ \A p \in DOMAIN cyc : cyc[p].pc = "idle"
  /\ \E j, k \in DOMAIN queue :
       /\ queue[j].retry_count = maxRetries
       /\ fails[queue[j].id] = maxRetries
       /\ queue[k].retry_count = 0

\* h := 31 * h + charCode, wrapped to a signed 32-bit integer.
Times31Plus(h, charCode) ==
  LET lo == Low(h) * 31 + charCode
  IN  ToInt32((High(h) * 31 + lo \div 65536) % 65536, lo % 65536)

\* The fold of Times31Plus over the code units a .. b, starting from h.
RECURSIVE FoldRange(_, _, _, _)
FoldRange(h, codes, a, b) ==
  IF a > b THEN h
  ELSE IF a = b THEN Times31Plus(h, codes[a])
  ELSE CHOOSE r \in {FoldRange(v, codes, (a + b) \div 2 + 1, b) :
                       v \in {FoldRange(h, codes, a, (a + b) \div 2)}} : TRUE

\* The fold of Times31Plus over the first n code units, starting from 0.
Fold31(codes, n) == FoldRange(0, codes, 1, n)

\* The entries with everything but id, operation and record id blanked.
Essence(items) ==
  [k \in DOMAIN items |->
     [items[k] EXCEPT !.retry_count = 0, !.error_message = "",
                      !.created_at = NoTime]]

\* C39: the checksum in the payload of a batch request is generateChecksum
\* of the batch: it is 'empty' for an empty batch and otherwise
\* <count>-<first entry id>-<last entry id>-<hash> with hash the fold
\* h := 31 * h + charCode, wrapped to a signed 32-bit integer, over the
\* serialized (operation, record id) pairs; every value of the fold lies in
\* -2^31 .. 2^31 - 1; the checksum is determined by the ordered entry ids,
\* operations and record ids; and the step that computes it changes no
\* record, no outbox entry and nothing of the result of the cycle.
C39_BatchChecksum ==
  /\ [](\A p \in DOMAIN cyc :
          cyc[p].pc = "sent" =>
            LET b        == requestPayload(p).items
                checksum == requestPayload(p).checksum
                codes    == dataString(b)
            IN  /\ b = <<>> => checksum = "empty"
                /\ b # <<>> =>
                     /\ checksum =
                          ToString(Len(b)) \o "-" \o ToString(b[1].id)
                            \o "-" \o ToString(b[Len(b)].id)
                            \o "-" \o ToString(Fold31(codes, Len(codes)))
                     /\ \A n \in 0 .. Len(codes) :
                          /\ Fold31(codes, n) >= -2147483647 - 1
                          /\ Fold31(codes, n) <= 2147483647
                          /\ HashFrom(0, codes, 1, n) = Fold31(codes, n)
                /\ generateChecksum(Essence(b)) = checksum)
  /\ [][ \A p \in DOMAIN cyc :
          (ev'.kind = "post" /\ cyc'[p].pc = "sent" /\ cyc[p].pc = "marked") =>
            /\ tasks' = tasks
            /\ queue' = queue
            /\ cyc'[p].result = cyc[p].result
            /\ cyc'[p].outcome = cyc[p].outcome
        ]_vars

\* C39 witness: a batch of two entries of one record has been sent with
\* its checksum, and the hash of the batch has wrapped to a negative
\* number.
C39_Witness ==
  \E p \in DOMAIN cyc :
    /\ ev.kind = "post"
    /\ cyc[p].pc = "sent"
    /\ Len(cyc[p].batch) = 2
    /\ cyc[p].batch[1].task_id = cyc[p].batch[2].task_id
    /\ HashFrom(0, dataString(cyc[p].batch), 1,
                Len(dataString(cyc[p].batch))) < 0
    /\ requestPayload(p).checksum # "empty"

====
